---- MODULE Spec2Model ----
(***************************************************************************)
(* Order recommendation engine of mdavala/sentinel:                        *)
(*   src/order_recommendation_engine.py  (monthly carton-based planner)    *)
(*   src/refresh_price_changes.py        (price change detector)           *)
(*   src/app.py                          (dashboard routes on the tables)  *)
(*                                                                         *)
(* Units.  Money is an integer number of mills (1/1000 SGD), so that       *)
(* round(x, 2) is a real conversion (to a multiple of 10 mills).           *)
(* weekly_demand_qty is an integer number of tenths of a unit, so that     *)
(* round(q) is a real conversion (to a whole unit).                        *)
(* Names are sequences of tokens; the token " " is surplus whitespace and  *)
(* the capitalised tokens are the ones str.lower() changes.                *)
(***************************************************************************)
EXTENDS Integers, Sequences, FiniteSets, TLC

VARIABLES
    demand_forecasts,         \* rows of demand_forecasts, in ORDER BY weekly_demand_value_sgd DESC order
    product_inventory_table,  \* rows of product_inventory_table, in table order
    invoice_table,            \* rows of invoice_table, in ORDER BY invoice_date DESC order
    order_recommendations,    \* committed rows of order_recommendations
    price_changes_table,      \* committed rows of price_changes
    next_rec_id,              \* AUTOINCREMENT of order_recommendations
    next_pc_id,               \* AUTOINCREMENT of price_changes
    pc,                       \* position of each planner run inside run()
    target_month,             \* argument of each run()
    start_date,               \* local start_date of each run()
    deleted,                  \* local deleted of each run() (rows cleared)
    items_with_costs,         \* local items_with_costs of generate_monthly_recommendations
    recommendations,          \* local recommendations of each run()
    price_changes,            \* self.price_changes of each run's engine
    committed_at_start,       \* history: the two output tables when run() was entered
    det_pc,                   \* position of the detector inside refresh()
    det_price_changes,        \* self.price_changes of the detector
    det_at_start,             \* history: price_changes when refresh() was entered
    n_refresh,                \* refreshes started so far
    n_updates,                \* dashboard writes so far
    view,                     \* what the dashboard read last
    supplier_order_patterns,  \* supplier_order_patterns: last_order_date of each supplier's row
    sales_patterns,           \* daily engine: self.sales_patterns, in dict order
    supplier_patterns,        \* daily engine: self.supplier_patterns, in dict order
    inventory_status,         \* daily engine: self.inventory_status, in dict order
    supplier_matches,         \* daily engine: what the product matcher knows of each product
    final_recommendations,    \* daily engine: what generate_daily_recommendations returned
    daily_pc,                 \* daily engine: position of the caller
    transaction_details,      \* master_transaction_details.xlsx: the rows of the sheet
    supplier_orders_zf,       \* supplier_orders_zf.csv: the rows of the file
    schedule,                 \* daily engine: what generate_14_day_schedule returned
    product_matcher,          \* the two maps of a ProductMatcher, None before it is built
    find_result               \* what find_supplier_for_product answered its last caller

vars == <<demand_forecasts, product_inventory_table, invoice_table,
          order_recommendations, price_changes_table, next_rec_id, next_pc_id,
          pc, target_month, start_date, deleted, items_with_costs, recommendations,
          price_changes, committed_at_start, det_pc, det_price_changes, det_at_start,
          n_refresh, n_updates, view, supplier_order_patterns, sales_patterns,
          supplier_patterns, inventory_status, supplier_matches,
          final_recommendations, daily_pc, transaction_details, supplier_orders_zf,
          schedule, product_matcher, find_result>>

inputs == <<demand_forecasts, product_inventory_table, invoice_table>>

\* The state of the daily engine (orderRecommendations/recommendation_engine.py).
daily == <<sales_patterns, supplier_patterns, inventory_status, supplier_matches,
           final_recommendations, daily_pc, transaction_details, supplier_orders_zf,
           schedule, product_matcher, find_result>>

(***************************************************************************)
(* Bounds of the model.                                                    *)
(***************************************************************************)
MaxItems == 2       \* rows of demand_forecasts
MaxCatalog == 2     \* rows of product_inventory_table
MaxInvoices == 2    \* rows of invoice_table
MaxRuns == 2        \* planner runs (each run() is entered once)
MaxRefresh == 1     \* detector refreshes
MaxUpdates == 1     \* dashboard status updates
MaxProducts == 3    \* products with a sales pattern
MaxPatterns == 3    \* suppliers with an order pattern
MaxStock == 2       \* items of inventory_status
MaxDetRefresh == 2  \* refreshes of the detector run on its own
MaxOrders == 3      \* rows of supplier_orders_zf.csv
MaxMatchInvoices == 3  \* rows of invoice_table the matcher is asked over
MaxChangeId == 2    \* ids of price_changes the review route is asked for

(***************************************************************************)
(* Program constants (OrderRecommendationEngine.__init__), in mills.       *)
(***************************************************************************)
monthly_budget == 12000000
min_order_value == 10000
price_tolerance_pct == 10

Runs == 1..MaxRuns

(***************************************************************************)
(* Python values.                                                          *)
(***************************************************************************)
None == [some |-> FALSE, val |-> 0]
Some(x) == [some |-> TRUE, val |-> x]

Max(a, b) == IF a >= b THEN a ELSE b
Min(a, b) == IF a <= b THEN a ELSE b

\* round(x) of a non-negative number given in tenths: nearest whole unit,
\* a tie going to the even neighbour (x.5 is exact in binary).
round0(tenths) ==
    LET q == tenths \div 10
        r == tenths % 10
    IN  IF r < 5 THEN q
        ELSE IF r > 5 THEN q + 1
        ELSE IF q % 2 = 0 THEN q ELSE q + 1

\* round(x, 2) of an amount in mills: nearest cent, a tie going to the even cent.
round2(mills) ==
    LET q == mills \div 10
        r == mills % 10
    IN  10 * (IF r < 5 THEN q
              ELSE IF r > 5 THEN q + 1
              ELSE IF q % 2 = 0 THEN q ELSE q + 1)

\* str.lower() on one token.
lower_token(t) ==
    CASE t = "Milk" -> "milk"
      [] t = "Tea"  -> "tea"
      [] t = "Pack" -> "pack"
      [] t \in {"Coke", "COKE"} -> "coke"
      [] t = "320ML" -> "320ml"
      [] t = "Zero" -> "zero"
      [] t = "1L" -> "1l"
      [] t = "Fresh" -> "fresh"
      [] t = "Maggi" -> "maggi"
      [] t = "Noodles" -> "noodles"
      [] t = "CAN" -> "can"
      [] t = "Curry" -> "curry"
      [] t = "UHT" -> "uht"
      [] t = "Litre" -> "litre"
      [] t = "Meiji" -> "meiji"
      [] OTHER      -> t

lower(s) == [i \in DOMAIN s |-> lower_token(s[i])]

RECURSIVE lstrip(_)
lstrip(s) == IF s # <<>> /\ Head(s) = " " THEN lstrip(Tail(s)) ELSE s

RECURSIVE rstrip(_)
rstrip(s) == IF s # <<>> /\ s[Len(s)] = " " THEN rstrip(SubSeq(s, 1, Len(s) - 1)) ELSE s

strip(s) == rstrip(lstrip(s))

\* name.lower().strip(): the key every dictionary of the engine is indexed by.
name_key(name) == strip(lower(name))

\* set(key.split())
split_words(key) == {key[i] : i \in DOMAIN key} \ {" "}

(***************************************************************************)
(* dict: insertion-ordered, a later put of a present key replaces the      *)
(* value in place.                                                         *)
(***************************************************************************)
dict_has(d, k) == \E i \in DOMAIN d : d[i].k = k

dict_get(d, k) == d[CHOOSE i \in DOMAIN d : d[i].k = k].v

dict_put(d, k, v) ==
    IF dict_has(d, k)
    THEN [i \in DOMAIN d |-> IF d[i].k = k THEN [k |-> k, v |-> v] ELSE d[i]]
    ELSE Append(d, [k |-> k, v |-> v])

\* list.sort(key=..., reverse=True): stable, largest key first.  s is the list
\* and keys[i] the sort key of s[i].
RECURSIVE insert_desc(_, _)
insert_desc(sorted, x) ==
    IF sorted = <<>> THEN <<x>>
    ELSE IF Head(sorted).key >= x.key
         THEN <<Head(sorted)>> \o insert_desc(Tail(sorted), x)
         ELSE <<x>> \o sorted

RECURSIVE sort_pairs_desc(_)
sort_pairs_desc(s) ==
    IF s = <<>> THEN <<>>
    ELSE insert_desc(sort_pairs_desc(SubSeq(s, 1, Len(s) - 1)), s[Len(s)])

sort_desc(s, keys) ==
    LET sorted == sort_pairs_desc([i \in DOMAIN s |-> [key |-> keys[i], elem |-> s[i]]])
    IN  [i \in DOMAIN sorted |-> sorted[i].elem]

(***************************************************************************)
(* The engine's readers of the input tables.                               *)
(***************************************************************************)
excluded_categories == {"Milk Curd Yoghurt Batter", "Bread & Spread"}

\* SELECT ... FROM demand_forecasts WHERE category NOT IN (...) ORDER BY value DESC
get_all_items_with_demand(demand) ==
    SelectSeq(demand, LAMBDA row : row.category \notin excluded_categories)

\* Keys of inventory_costs: the product's name key, or f"barcode_{barcode}".
cost_name_key(key) == [barcode |-> 0, name |-> key]
cost_barcode_key(barcode) == [barcode |-> barcode, name |-> <<>>]

\* One row of the SELECT: a cost that float() rejects is skipped; the entry is
\* stored under the name key and, when the barcode is truthy, under the barcode.
RECURSIVE load_costs(_, _)
load_costs(rows, costs) ==
    IF rows = <<>> THEN costs
    ELSE LET row == Head(rows)
             entry == [product_name |-> row.product_name,
                       unit_cost |-> row.unit_cost,
                       barcode |-> row.barcode]
             named == dict_put(costs, cost_name_key(name_key(row.product_name)), entry)
         IN  load_costs(Tail(rows),
                 IF ~row.cost_parses THEN costs
                 ELSE IF row.barcode # 0
                      THEN dict_put(named, cost_barcode_key(row.barcode), entry)
                      ELSE named)

get_product_inventory_costs(catalog) == load_costs(catalog, <<>>)

carton_words == {"carton", "pack", "packet", "bdl", "sac"}

\* The rows arrive most recent first; only the first row of a key is stored.
RECURSIVE load_carton_info(_, _)
load_carton_info(rows, info) ==
    IF rows = <<>> THEN info
    ELSE LET row == Head(rows)
             key == name_key(row.item_name)
             is_carton == lower_token(row.carton_or_loose) \in carton_words
             entry == [supplier |-> row.supplier_name,
                       is_carton |-> is_carton,
                       items_per_carton |-> IF row.items_per_carton # 0
                                            THEN row.items_per_carton ELSE 1,
                       carton_price |-> row.unit_price,
                       unit_price_item |-> row.unit_price_item,
                       item_name_original |-> row.item_name,
                       invoice_date |-> row.invoice_date]
         IN  load_carton_info(Tail(rows),
                 IF dict_has(info, key) THEN info ELSE dict_put(info, key, entry))

get_carton_info_from_invoices(invoices) == load_carton_info(invoices, <<>>)

\* {supplier: [item keys]}; supplier_order is the order in which the GROUP BY
\* query returns the suppliers, which is the iteration order of the dict.
get_supplier_item_mapping(invoices, supplier_order) ==
    LET items_of(sup) == {name_key(invoices[i].item_name) :
                            i \in {j \in DOMAIN invoices : invoices[j].supplier_name = sup}}
        present == SelectSeq(supplier_order,
                      LAMBDA sup : \E i \in DOMAIN invoices : invoices[i].supplier_name = sup)
    IN  [i \in DOMAIN present |-> [k |-> present[i], v |-> items_of(present[i])]]

(***************************************************************************)
(* Matching.                                                               *)
(***************************************************************************)
\* The fuzzy loop of find_unit_cost: entries in dict order, barcode keys
\* skipped, score = overlap / len(item_words), kept when score > best_score
\* and score >= 0.8.  All scores share the denominator, so the best score is
\* carried as its overlap.
RECURSIVE fuzzy_cost(_, _, _, _)
fuzzy_cost(entries, item_words, best_overlap, best_cost) ==
    IF entries = <<>> THEN best_cost
    ELSE LET e == Head(entries)
             overlap == Cardinality(item_words \cap split_words(e.k.name))
             take == /\ e.k.barcode = 0
                     /\ Cardinality(item_words) > 0
                     /\ overlap > best_overlap
                     /\ 10 * overlap >= 8 * Cardinality(item_words)
         IN  IF take
             THEN fuzzy_cost(Tail(entries), item_words, overlap, Some(e.v.unit_cost))
             ELSE fuzzy_cost(Tail(entries), item_words, best_overlap, best_cost)

find_unit_cost(item_name, barcode, inventory_costs) ==
    LET item_key == name_key(item_name)
    IN  IF barcode # 0 /\ dict_has(inventory_costs, cost_barcode_key(barcode))
        THEN Some(dict_get(inventory_costs, cost_barcode_key(barcode)).unit_cost)
        ELSE IF dict_has(inventory_costs, cost_name_key(item_key))
        THEN Some(dict_get(inventory_costs, cost_name_key(item_key)).unit_cost)
        ELSE fuzzy_cost(inventory_costs, split_words(item_key), 0, None)

\* The fuzzy loop of find_supplier_for_item: score >= 0.5 and > best_score.
\* Within one supplier only the largest overlap matters.
RECURSIVE fuzzy_supplier(_, _, _, _)
fuzzy_supplier(entries, item_words, best_overlap, best_supplier) ==
    IF entries = <<>> THEN best_supplier
    ELSE LET e == Head(entries)
             overlaps == {Cardinality(item_words \cap split_words(item)) : item \in e.v}
             good == {o \in overlaps : /\ Cardinality(item_words) > 0
                                       /\ o > best_overlap
                                       /\ 10 * o >= 5 * Cardinality(item_words)}
         IN  IF good # {}
             THEN fuzzy_supplier(Tail(entries), item_words,
                                 CHOOSE o \in good : \A o2 \in good : o >= o2,
                                 Some(e.k))
             ELSE fuzzy_supplier(Tail(entries), item_words, best_overlap, best_supplier)

find_supplier_for_item(item_name, supplier_items_map) ==
    LET item_key == name_key(item_name)
        exact == {i \in DOMAIN supplier_items_map : item_key \in supplier_items_map[i].v}
    IN  IF exact # {}
        THEN Some(supplier_items_map[CHOOSE i \in exact : \A j \in exact : i <= j].k)
        ELSE fuzzy_supplier(supplier_items_map, split_words(item_key), 0, None)

(***************************************************************************)
(* Price comparison (planner side).  A per-item invoice price may be a     *)
(* carton price divided by items_per_carton, so it is carried as the       *)
(* fraction num / den of mills.                                            *)
(***************************************************************************)
\* Nearest integer to n / d (n >= 0, d > 0), a tie going to the even one.
round_ratio(n, d) ==
    LET q == n \div d
        r == n % d
    IN  IF 2 * r < d THEN q
        ELSE IF 2 * r > d THEN q + 1
        ELSE IF q % 2 = 0 THEN q ELSE q + 1

\* The comparisons of the input universe in which the invoice price is
\* exactly 10% above the cost and the double (price_diff / cost) * 100 comes
\* out above 10.0: (1.1 - 1.0) / 1.0 * 100 and (2.2 - 2.0) / 2.0 * 100 are
\* 10.000000000000009, while 5.5 against 5.0 gives 10.0 and 3.3 against 3.0
\* gives 9.999999999999993.  Entries are <<cost, price numerator, price
\* denominator>>.
double_ties_above == { <<1000, 1100, 1>>, <<2000, 2200, 1>> }

\* percentage_change > self.price_tolerance * 100, as the doubles compare.
above_tolerance(inventory_unit_cost, invoice_num, invoice_den) ==
    LET diff_num == invoice_num - inventory_unit_cost * invoice_den
        base == inventory_unit_cost * invoice_den
    IN  \/ diff_num * 100 > price_tolerance_pct * base
        \/ /\ diff_num * 100 = price_tolerance_pct * base
           /\ <<inventory_unit_cost, invoice_num, invoice_den>> \in double_ties_above

\* compare_prices: the list of records it appends to self.price_changes
\* (none or one).  percentage_hike is in hundredths of a percent.
compare_prices(item_name, invoice_num, invoice_den, inventory_unit_cost, supplier) ==
    IF invoice_num <= 0 \/ inventory_unit_cost <= 0 THEN <<>>
    ELSE LET diff_num == invoice_num - inventory_unit_cost * invoice_den
             base == inventory_unit_cost * invoice_den
         IN  IF above_tolerance(inventory_unit_cost, invoice_num, invoice_den)
             THEN << [item_name |-> item_name,
                      supplier |-> supplier,
                      inventory_price |-> round2(inventory_unit_cost),
                      invoice_price |-> 10 * round_ratio(invoice_num, 10 * invoice_den),
                      price_difference |-> 10 * round_ratio(diff_num, 10 * invoice_den),
                      percentage_hike |-> round_ratio(diff_num * 10000, base)] >>
             ELSE <<>>

(***************************************************************************)
(* generate_monthly_recommendations: the per-item matching loop.           *)
(***************************************************************************)
\* The fuzzy carton lookup (no exact key): score >= 0.7 and > best_score.
RECURSIVE fuzzy_carton(_, _, _, _)
fuzzy_carton(entries, item_words, best_overlap, best_match) ==
    IF entries = <<>> THEN best_match
    ELSE LET e == Head(entries)
             overlap == Cardinality(item_words \cap split_words(e.k))
             take == /\ Cardinality(item_words) > 0
                     /\ overlap > best_overlap
                     /\ 10 * overlap >= 7 * Cardinality(item_words)
         IN  IF take
             THEN fuzzy_carton(Tail(entries), item_words, overlap, [some |-> TRUE, val |-> e.v])
             ELSE fuzzy_carton(Tail(entries), item_words, best_overlap, best_match)

no_carton_data == [some |-> FALSE]

\* Steps 3 and 4 of the loop body: carton_data and the price changes recorded.
carton_step(item, unit_cost, supplier, carton_info) ==
    LET item_key == name_key(item.item_name)
    IN  IF dict_has(carton_info, item_key)
        THEN LET cd == dict_get(carton_info, item_key)
                 per_carton == cd.is_carton /\ cd.items_per_carton > 1
                 num == IF per_carton /\ cd.carton_price > 0
                        THEN cd.carton_price ELSE cd.unit_price_item
                 den == IF per_carton THEN cd.items_per_carton ELSE 1
             IN  [carton_data |-> [some |-> TRUE, val |-> cd],
                  changes |-> IF cd.unit_price_item > 0
                              THEN compare_prices(item.item_name, num, den, unit_cost, supplier)
                              ELSE <<>>]
        ELSE [carton_data |-> fuzzy_carton(carton_info, split_words(item_key), 0, no_carton_data),
              changes |-> <<>>]

\* Step 5 of the loop body: the entry appended to items_with_costs.
item_with_cost(item, unit_cost, supplier, carton_data) ==
    IF carton_data.some /\ carton_data.val.is_carton /\ carton_data.val.items_per_carton > 1
    THEN [item_name |-> item.item_name,
          category |-> item.category,
          weekly_demand_qty |-> item.weekly_demand_qty,
          weekly_demand_value_sgd |-> item.weekly_demand_value_sgd,
          unit_cost |-> unit_cost,
          supplier |-> supplier,
          order_unit |-> "carton",
          items_per_carton |-> carton_data.val.items_per_carton,
          carton_price |-> IF carton_data.val.carton_price > 0
                           THEN carton_data.val.carton_price
                           ELSE unit_cost * carton_data.val.items_per_carton]
    ELSE [item_name |-> item.item_name,
          category |-> item.category,
          weekly_demand_qty |-> item.weekly_demand_qty,
          weekly_demand_value_sgd |-> item.weekly_demand_value_sgd,
          unit_cost |-> unit_cost,
          supplier |-> supplier,
          order_unit |-> "loose",
          items_per_carton |-> 1,
          carton_price |-> unit_cost]

\* Mutant of match_items: an item without a unit cost is kept, at cost 0.
RECURSIVE match_items_defaulting_cost(_, _, _, _, _)
match_items_defaulting_cost(items, inventory_costs, carton_info, supplier_items_map, acc) ==
    IF items = <<>> THEN acc
    ELSE LET item == Head(items)
             unit_cost == find_unit_cost(item.item_name, item.barcode, inventory_costs)
             supplier == find_supplier_for_item(item.item_name, supplier_items_map)
             step == carton_step(item, unit_cost.val, supplier.val, carton_info)
         IN  match_items_defaulting_cost(Tail(items), inventory_costs, carton_info,
                 supplier_items_map,
                 IF ~supplier.some THEN acc
                 ELSE [items_with_costs |->
                           Append(acc.items_with_costs,
                                  item_with_cost(item, unit_cost.val, supplier.val,
                                                 step.carton_data)),
                       price_changes |-> acc.price_changes \o step.changes])

\* The loop over all_items: items_with_costs and self.price_changes.  An item
\* whose unit cost or whose supplier is None is skipped (unmatched).
RECURSIVE match_items(_, _, _, _, _)
match_items(items, inventory_costs, carton_info, supplier_items_map, acc) ==
    IF items = <<>> THEN acc
    ELSE LET item == Head(items)
             unit_cost == find_unit_cost(item.item_name, item.barcode, inventory_costs)
             supplier == find_supplier_for_item(item.item_name, supplier_items_map)
             step == carton_step(item, unit_cost.val, supplier.val, carton_info)
         IN  match_items(Tail(items), inventory_costs, carton_info, supplier_items_map,
                 IF ~unit_cost.some \/ ~supplier.some THEN acc
                 ELSE [items_with_costs |->
                           Append(acc.items_with_costs,
                                  item_with_cost(item, unit_cost.val, supplier.val,
                                                 step.carton_data)),
                       price_changes |-> acc.price_changes \o step.changes])

(***************************************************************************)
(* Weeks of the target month.                                              *)
(***************************************************************************)
is_leap(year) == (year % 4 = 0 /\ year % 100 # 0) \/ year % 400 = 0

\* Day of month_end: the day before the first of the next month.
days_in_month(year, month) ==
    CASE month \in {1, 3, 5, 7, 8, 10, 12} -> 31
      [] month \in {4, 6, 9, 11}            -> 30
      [] OTHER                              -> IF is_leap(year) THEN 29 ELSE 28

\* month_start.replace(year=month_start.year + 1, month=1, day=1) of a
\* December raises ValueError when the next year is beyond datetime's last.
month_end_raises(date) == date.month = 12 /\ date.year + 1 \notin 1..9999

\* The while loop: weeks of at most 7 days from day 1 to month_end.
RECURSIVE weeks_from(_, _, _)
weeks_from(current_week_start, week_num, month_end) ==
    IF current_week_start > month_end THEN <<>>
    ELSE LET week_end == Min(current_week_start + 6, month_end)
         IN  << [week_num |-> week_num,
                 start_date |-> current_week_start,
                 end_date |-> week_end] >>
             \o weeks_from(week_end + 1, week_num + 1, month_end)

month_weeks(date) == weeks_from(1, 1, days_in_month(date.year, date.month))

(***************************************************************************)
(* _generate_week_recommendations_with_budget                              *)
(***************************************************************************)
\* Mutant of group_by_supplier: every item opens a group of its own.
group_per_item(items, by_supplier) ==
    by_supplier \o [i \in DOMAIN items |-> [k |-> items[i].supplier, v |-> <<items[i]>>]]

\* by_supplier: suppliers in order of their first item, each with its items.
RECURSIVE group_by_supplier(_, _)
group_by_supplier(items, by_supplier) ==
    IF items = <<>> THEN by_supplier
    ELSE LET item == Head(items)
             so_far == IF dict_has(by_supplier, item.supplier)
                       THEN dict_get(by_supplier, item.supplier) ELSE <<>>
         IN  group_by_supplier(Tail(items),
                 dict_put(by_supplier, item.supplier, Append(so_far, item)))

weekly_qty_items(item) == Max(1, round0(item.weekly_demand_qty))

\* Mutant of cartons_needed: the division rounds down.
cartons_rounded_down(item) ==
    Max(1, weekly_qty_items(item) \div item.items_per_carton)

cartons_needed(item) ==
    Max(1, (weekly_qty_items(item) + item.items_per_carton - 1) \div item.items_per_carton)

carton_cost(item) ==
    IF item.carton_price > 0 THEN item.carton_price
    ELSE item.unit_cost * item.items_per_carton

\* item_total_cost (carton) or item_cost (loose), unrounded.
line_cost(item) ==
    IF item.order_unit = "carton"
    THEN cartons_needed(item) * carton_cost(item)
    ELSE weekly_qty_items(item) * item.unit_cost

\* One entry of order_items.  The two shapes of the source are one record
\* here: a carton line has quantity 0, a loose line has cartons 0.
order_line(item) ==
    IF item.order_unit = "carton"
    THEN [item_name |-> item.item_name,
          order_unit |-> "carton",
          cartons |-> cartons_needed(item),
          items_per_carton |-> item.items_per_carton,
          total_items |-> cartons_needed(item) * item.items_per_carton,
          quantity |-> 0,
          carton_price |-> round2(carton_cost(item)),
          unit_cost |-> round2(item.unit_cost),
          subtotal |-> round2(line_cost(item))]
    ELSE [item_name |-> item.item_name,
          order_unit |-> "loose",
          cartons |-> 0,
          items_per_carton |-> 1,
          total_items |-> 0,
          quantity |-> weekly_qty_items(item),
          carton_price |-> 0,
          unit_cost |-> round2(item.unit_cost),
          subtotal |-> round2(line_cost(item))]

RECURSIVE sum_line_cost(_)
sum_line_cost(items) ==
    IF items = <<>> THEN 0 ELSE line_cost(Head(items)) + sum_line_cost(Tail(items))

\* supplier_orders before the sort: one order per supplier of by_supplier.
supplier_orders_of(items) ==
    LET by_supplier == group_by_supplier(items, <<>>)
    IN  [i \in DOMAIN by_supplier |->
            [supplier |-> by_supplier[i].k,
             cost |-> sum_line_cost(by_supplier[i].v),
             items |-> [j \in DOMAIN by_supplier[i].v |-> order_line(by_supplier[i].v[j])]]]

\* Mutant of admits: the total admitted so far is left out of the budget test.
admits_without_running_total(order, total_week_cost, weekly_budget) ==
    /\ ~(order.cost < min_order_value)
    /\ order.cost <= weekly_budget

\* Whether the selection loop admits an order, given the total admitted so far.
admits(order, total_week_cost, weekly_budget) ==
    /\ ~(order.cost < min_order_value)
    /\ total_week_cost + order.cost <= weekly_budget

week_recommendation(order, week, date) ==
    [supplier_name |-> order.supplier,
     recommended_date |-> [year |-> date.year, month |-> date.month, day |-> week.start_date],
     week_number |-> week.week_num,
     week_end |-> week.end_date,
     total_amount_sgd |-> round2(order.cost),
     items |-> order.items,
     status |-> "pending"]

\* The selection loop over the sorted supplier_orders.
RECURSIVE select_orders(_, _, _, _, _)
select_orders(orders, week, date, weekly_budget, total_week_cost) ==
    IF orders = <<>> THEN <<>>
    ELSE LET order == Head(orders)
         IN  IF admits(order, total_week_cost, weekly_budget)
             THEN <<week_recommendation(order, week, date)>>
                  \o select_orders(Tail(orders), week, date, weekly_budget,
                                   total_week_cost + order.cost)
             ELSE select_orders(Tail(orders), week, date, weekly_budget, total_week_cost)

\* Mutant of sorted_supplier_orders: the orders in the order of by_supplier.
supplier_orders_unsorted(items) == supplier_orders_of(items)

sorted_supplier_orders(items) ==
    LET orders == supplier_orders_of(items)
    IN  sort_desc(orders, [i \in DOMAIN orders |-> orders[i].cost])

generate_week_recommendations_with_budget(week, date, items, weekly_budget) ==
    select_orders(sorted_supplier_orders(items), week, date, weekly_budget, 0)

(***************************************************************************)
(* generate_monthly_recommendations                                        *)
(***************************************************************************)
RECURSIVE all_weeks(_, _, _, _)
all_weeks(weeks, date, items, weekly_budget) ==
    IF weeks = <<>> THEN <<>>
    ELSE generate_week_recommendations_with_budget(Head(weeks), date, items, weekly_budget)
         \o all_weeks(Tail(weeks), date, items, weekly_budget)

\* items_with_costs after the sort, and the price changes recorded on the way.
matched_items(demand, catalog, invoices, supplier_order) ==
    LET matched == match_items(get_all_items_with_demand(demand),
                               get_product_inventory_costs(catalog),
                               get_carton_info_from_invoices(invoices),
                               get_supplier_item_mapping(invoices, supplier_order),
                               [items_with_costs |-> <<>>, price_changes |-> <<>>])
        items == matched.items_with_costs
    IN  [items_with_costs |->
             sort_desc(items, [i \in DOMAIN items |-> items[i].weekly_demand_value_sgd]),
         price_changes |-> matched.price_changes]

\* Mutant of weekly_budget_of: every week is given the budget of the month.
weekly_budget_undivided(weeks) == monthly_budget

\* 12,000,000 mills split over 4 or 5 weeks is a whole number of mills.
weekly_budget_of(weeks) == monthly_budget \div Len(weeks)

generate_monthly_recommendations(date, demand, catalog, invoices, supplier_order) ==
    LET matched == matched_items(demand, catalog, invoices, supplier_order)
        weeks == month_weeks(date)
    IN  [items_with_costs |-> matched.items_with_costs,
         recommendations |-> all_weeks(weeks, date, matched.items_with_costs,
                                       weekly_budget_of(weeks)),
         price_changes |-> matched.price_changes]

(***************************************************************************)
(* The daily engine (orderRecommendations/recommendation_engine.py).       *)
(* avg_daily_sales and order_priority are in tenths; sales_frequency is    *)
(* days_with_sales / 90; a predicted demand is a numerator over            *)
(* predict_den.                                                            *)
(***************************************************************************)
predict_den == 10 * 10 * 90

\* SequenceMatcher(None, str1.lower(), str2.lower()).ratio(), in thousandths,
\* tabulated for the names of the model's universe.
sequence_ratio(a, b) ==
    LET pair == {a, b}
    IN  CASE a = b -> 1000
          [] pair = {<<"coke", "320ml">>, <<"coke", "zero", "320ml">>} -> 800
          [] pair = {<<"milk", "1l">>, <<"fresh", "milk", "1l">>} -> 700
          [] pair = {<<"coke", "320ml">>, <<"milk", "1l">>} -> 353
          [] pair = {<<"coke", "320ml">>, <<"fresh", "milk", "1l">>} -> 261
          [] pair = {<<"coke", "320ml">>, <<"maggi", "noodles">>} -> 174
          [] pair = {<<"coke", "zero", "320ml">>, <<"milk", "1l">>} -> 273
          [] pair = {<<"coke", "zero", "320ml">>, <<"fresh", "milk", "1l">>} -> 214
          [] pair = {<<"coke", "zero", "320ml">>, <<"maggi", "noodles">>} -> 143
          [] pair = {<<"maggi", "noodles">>, <<"milk", "1l">>} -> 400
          [] pair = {<<"maggi", "noodles">>, <<"fresh", "milk", "1l">>} -> 154
          [] OTHER -> 0

similarity_score(str1, str2) == sequence_ratio(lower(str1), lower(str2))

has_pattern(patterns, product_name) ==
    \E i \in DOMAIN patterns : patterns[i].product_name = product_name

pattern_of(patterns, product_name) ==
    patterns[CHOOSE i \in DOMAIN patterns : patterns[i].product_name = product_name]

trend_multiplier(trend) ==
    CASE trend = "increasing" -> 12
      [] trend = "decreasing" -> 8
      [] OTHER -> 10

\* min(sales_frequency * 2, 1.0), in ninetieths
frequency_multiplier(pattern) == Min(2 * pattern.days_with_sales, 90)

\* predict_demand: base_daily_demand * days_ahead * trend_multiplier *
\* frequency_multiplier, 0 for a product without a sales pattern.
predict_demand(patterns, product_name, days_ahead) ==
    IF ~has_pattern(patterns, product_name) THEN 0
    ELSE LET pattern == pattern_of(patterns, product_name)
         IN  Max(0, pattern.avg_daily_sales * days_ahead
                      * trend_multiplier(pattern.trend) * frequency_multiplier(pattern))

\* _calculate_urgency
calculate_urgency(current_stock, predicted_demand, lead_time) ==
    IF current_stock <= 0 THEN "critical"
    ELSE IF predicted_demand > 0
              /\ current_stock * lead_time * predict_den <= 2 * predicted_demand
         THEN "high"
    ELSE IF predicted_demand > 0
              /\ current_stock * lead_time * predict_den <= 5 * predicted_demand
         THEN "medium"
    ELSE "low"

\* The first inventory item whose name is similar enough, else 0.
current_stock_of(inventory, product_name) ==
    LET hits == {i \in DOMAIN inventory :
                    similarity_score(product_name, inventory[i].item_name) > 700}
    IN  IF hits = {} THEN 0
        ELSE inventory[CHOOSE i \in hits : \A j \in hits : i <= j].current_quantity

in_supplier_patterns(suppliers, supplier_name) ==
    \E i \in DOMAIN suppliers : suppliers[i].supplier_name = supplier_name

supplier_pattern_of(suppliers, supplier_name) ==
    suppliers[CHOOSE i \in DOMAIN suppliers : suppliers[i].supplier_name = supplier_name]

default_supplier_pattern ==
    [avg_days_between_orders |-> [num |-> 7, den |-> 1], recommended_buffer_days |-> 4,
     delivery_frequency |-> "medium"]

(***************************************************************************)
(* _load_supplier_patterns.  A row of supplier_orders_zf.csv is a supplier *)
(* and a date; dates are whole days counted from 2024-12-01, the first day *)
(* of the reliable window, whose last day 2025-06-30 is day 211.  The mean *)
(* of the gaps is kept exactly, as their sum over their number: the float  *)
(* the code holds compares with a whole number of days as the fraction     *)
(* does.                                                                   *)
(***************************************************************************)
reliable_start == 0
reliable_end == 211

\* avg_days_between <= days
avg_at_most(avg_days_between, days) == avg_days_between.num <= days * avg_days_between.den

\* The entry stored for one supplier.
pattern_entry(supplier_name, avg_days_between, last_order_date) ==
    [supplier_name |-> supplier_name,
     avg_days_between_orders |-> avg_days_between,
     delivery_frequency |-> IF avg_at_most(avg_days_between, 4) THEN "high"
                            ELSE IF avg_at_most(avg_days_between, 7) THEN "medium"
                            ELSE "low",
     recommended_buffer_days |-> IF avg_at_most(avg_days_between, 4) THEN 2
                                 ELSE IF avg_at_most(avg_days_between, 7) THEN 4
                                 ELSE 7,
     last_order_date |-> last_order_date]

reliable_data(df_supplier) ==
    SelectSeq(df_supplier, LAMBDA row : row.Date >= reliable_start /\ row.Date <= reliable_end)

\* Series.unique(): the values in the order of their first appearance.
unique(values) ==
    LET at == [i \in DOMAIN values |-> [i |-> i, value |-> values[i]]]
        first == SelectSeq(at, LAMBDA e : \A j \in 1..(e.i - 1) : values[j] # e.value)
    IN  [k \in DOMAIN first |-> first[k].value]

\* sort_values('Date') of one supplier's rows: their dates, ascending.
sort_values(dates) ==
    [k \in DOMAIN dates |->
        CHOOSE d \in {dates[i] : i \in DOMAIN dates} :
            /\ Cardinality({i \in DOMAIN dates : dates[i] < d}) < k
            /\ k <= Cardinality({i \in DOMAIN dates : dates[i] <= d})]

\* The dates of one supplier's rows in the order of the file.
dates_of(rows, supplier) ==
    LET own == SelectSeq(rows, LAMBDA row : row.Suppliers = supplier)
    IN  [i \in DOMAIN own |-> own[i].Date]

\* Date.diff().dropna(), in days.
date_diffs(dates) == [i \in 1..(Len(dates) - 1) |-> dates[i + 1] - dates[i]]

\* The sum of a sequence of numbers, by halves.
RECURSIVE sum_of(_)
sum_of(values) ==
    IF values = <<>> THEN 0
    ELSE IF Len(values) = 1 THEN values[1]
    ELSE LET half == Len(values) \div 2
         IN  sum_of(SubSeq(values, 1, half)) + sum_of(SubSeq(values, half + 1, Len(values)))

\* The mean gap of the rows as they stand in the file, without sort_values.
mean_gap_unsorted(rows, supplier) ==
    LET diffs == date_diffs(dates_of(rows, supplier))
    IN  [num |-> sum_of(diffs), den |-> Len(diffs)]

\* date_diffs.dt.days.mean() of the supplier's rows sorted by date.
mean_gap(rows, supplier) ==
    LET diffs == date_diffs(sort_values(dates_of(rows, supplier)))
    IN  [num |-> sum_of(diffs), den |-> Len(diffs)]

RECURSIVE load_supplier_loop(_, _, _)
load_supplier_loop(todo, rows, patterns) ==
    IF todo = <<>> THEN patterns
    ELSE LET supplier == Head(todo)
             supplier_orders == sort_values(dates_of(rows, supplier))
         IN  load_supplier_loop(Tail(todo), rows,
                 IF Len(supplier_orders) > 1
                 THEN Append(patterns,
                          pattern_entry(supplier, mean_gap(rows, supplier),
                                        supplier_orders[Len(supplier_orders)]))
                 ELSE patterns)

load_supplier_patterns(df_supplier) ==
    LET rows == reliable_data(df_supplier)
    IN  load_supplier_loop(unique([i \in DOMAIN rows |-> rows[i].Suppliers]), rows, <<>>)


(***************************************************************************)
(* _load_sales_patterns.  A row of master_transaction_details.xlsx is a    *)
(* date in whole days, an item and a quantity.  avg_daily_sales is kept in *)
(* tenths: the sheets of the model sell a whole number of tenths a day on  *)
(* average.                                                                *)
(***************************************************************************)
window_days == 90

max_of(values) ==
    CHOOSE v \in {values[i] : i \in DOMAIN values} : \A i \in DOMAIN values : values[i] <= v

\* The rows dated on or after three_months_ago.
recent_data(df_trans) ==
    IF df_trans = <<>> THEN <<>>
    ELSE LET recent_date == max_of([i \in DOMAIN df_trans |-> df_trans[i].Date])
             three_months_ago == recent_date - window_days
         IN  SelectSeq(df_trans, LAMBDA row : row.Date >= three_months_ago)

\* daily_sales of one product: one entry a calendar day, by date, with the
\* quantity sold that day.
product_sales_of(rows, product) ==
    LET own == SelectSeq(rows, LAMBDA row : row.item = product)
        days == sort_values(unique([i \in DOMAIN own |-> own[i].Date]))
    IN  [i \in DOMAIN days |->
            LET that_day == SelectSeq(own, LAMBDA row : row.Date = days[i])
            IN  sum_of([j \in DOMAIN that_day |-> that_day[j].quantity])]

\* _calculate_trend: the slope of the least-squares line through the daily
\* quantities against 0, 1, 2, ..., compared with 0.1 and -0.1.
calculate_trend(y) ==
    LET n == Len(y)
        sum_x == sum_of([i \in DOMAIN y |-> i - 1])
        sum_xx == sum_of([i \in DOMAIN y |-> (i - 1) * (i - 1)])
        sum_xy == sum_of([i \in DOMAIN y |-> (i - 1) * y[i]])
        slope_num == n * sum_xy - sum_x * sum_of(y)
        slope_den == n * sum_xx - sum_x * sum_x
    IN  IF n < 10 THEN "stable"
        ELSE IF \A i \in DOMAIN y : y[i] = y[1] THEN "stable"
        ELSE IF 10 * slope_num > slope_den THEN "increasing"
        ELSE IF 10 * slope_num < -slope_den THEN "decreasing"
        ELSE "stable"

load_sales_entry(rows, product) ==
    LET product_sales == product_sales_of(rows, product)
        total_sold == sum_of(product_sales)
        days_with_sales == Len(product_sales)
    IN  [product_name |-> product,
         total_sold_90_days |-> total_sold,
         avg_daily_sales |-> (10 * total_sold) \div days_with_sales,
         days_with_sales |-> days_with_sales,
         trend |-> calculate_trend(product_sales)]

load_sales_patterns(df_trans) ==
    LET rows == recent_data(df_trans)
        products == unique([i \in DOMAIN rows |-> rows[i].item])
    IN  [i \in DOMAIN products |-> load_sales_entry(rows, products[i])]

\* _load_inventory_status: one entry an item_name of inventory_table, a
\* later row of the same name replacing the earlier one.
RECURSIVE load_inventory_status(_, _)
load_inventory_status(inventory_df, status) ==
    IF inventory_df = <<>> THEN status
    ELSE LET row == Head(inventory_df)
             at == {i \in DOMAIN status : status[i].item_name = row.item_name}
         IN  load_inventory_status(Tail(inventory_df),
                 IF at = {} THEN Append(status, row)
                 ELSE [i \in DOMAIN status |-> IF i \in at THEN row ELSE status[i]])

\* calculate_reorder_point
calculate_reorder_point(patterns, suppliers, inventory, product_name, supplier_name) ==
    LET current_stock == current_stock_of(inventory, product_name)
        supplier_pattern == IF in_supplier_patterns(suppliers, supplier_name)
                            THEN supplier_pattern_of(suppliers, supplier_name)
                            ELSE default_supplier_pattern
        lead_time == supplier_pattern.recommended_buffer_days
        safety_days == 3
        total_days == lead_time + safety_days
        predicted_demand == predict_demand(patterns, product_name, total_days)
        needed == Max(0, predicted_demand - current_stock * predict_den)
        reorder_quantity == IF needed > 0 /\ needed < 5 * predict_den
                            THEN 5 * predict_den ELSE needed
    IN  [current_stock |-> current_stock,
         predicted_demand |-> predicted_demand,
         reorder_quantity |-> reorder_quantity,
         lead_time_days |-> lead_time,
         urgency |-> calculate_urgency(current_stock, predicted_demand, lead_time),
         supplier_delivery_frequency |-> supplier_pattern.delivery_frequency]

urgency_score(urgency) ==
    CASE urgency = "critical" -> 100
      [] urgency = "high" -> 80
      [] urgency = "medium" -> 50
      [] urgency = "low" -> 20
      [] OTHER -> 0

trend_score(trend) ==
    CASE trend = "increasing" -> 20
      [] trend = "stable" -> 10
      [] trend = "decreasing" -> 0
      [] OTHER -> 10

\* _calculate_priority, in tenths
calculate_priority(reorder_info, sales_pattern) ==
    10 * urgency_score(reorder_info.urgency)
    + Min(sales_pattern.total_sold_90_days, 500)
    + 10 * trend_score(sales_pattern.trend)

\* _should_order_today ordering only once more than the average has passed.
should_order_after(suppliers, supplier_name, target_date) ==
    /\ in_supplier_patterns(suppliers, supplier_name)
    /\ LET pattern == supplier_pattern_of(suppliers, supplier_name)
           days_since_last == target_date - pattern.last_order_date
           avg_frequency == pattern.avg_days_between_orders
       IN  days_since_last * avg_frequency.den > avg_frequency.num

\* _should_order_today
should_order_today(suppliers, supplier_name, target_date) ==
    /\ in_supplier_patterns(suppliers, supplier_name)
    /\ LET pattern == supplier_pattern_of(suppliers, supplier_name)
           days_since_last == target_date - pattern.last_order_date
           avg_frequency == pattern.avg_days_between_orders
       IN  days_since_last * avg_frequency.den >= avg_frequency.num

(***************************************************************************)
(* The product matcher (orderRecommendations/product_matcher.py).  A       *)
(* similarity of fuzz.token_sort_ratio is in percent.                      *)
(***************************************************************************)
\* The place of a lower-cased token in Python's order of strings.
token_rank(t) ==
    CASE t = "1" -> 1
      [] t = "1l" -> 2
      [] t = "320ml" -> 3
      [] t = "can" -> 4
      [] t = "coke" -> 5
      [] t = "curry" -> 6
      [] t = "fresh" -> 7
      [] t = "litre" -> 8
      [] t = "maggi" -> 9
      [] t = "meiji" -> 10
      [] t = "milk" -> 11
      [] t = "noodles" -> 12
      [] t = "uht" -> 13
      [] OTHER -> 14

\* fuzz._process_and_sort: utils.full_process lower-cases the name, then its
\* tokens are sorted and joined again.
process_and_sort(s) ==
    LET low == lower(s)
        before(i, j) == \/ token_rank(low[i]) < token_rank(low[j])
                        \/ token_rank(low[i]) = token_rank(low[j]) /\ i < j
    IN  [k \in DOMAIN low |->
            low[CHOOSE j \in DOMAIN low :
                    Cardinality({i \in DOMAIN low : before(i, j)}) = k - 1]]

\* fuzz.ratio of two processed names, tabulated for the pairs of the model's
\* universe that are scored (difflib and python-Levenshtein agree on them).
ratio(s1, s2) ==
    LET pair == {s1, s2}
        milk == <<"1l", "milk">>
        maggi == <<"maggi", "noodles">>
    IN  CASE s1 = s2 -> 100
          [] pair = {milk, <<"1l", "fresh", "milk">>} -> 70
          [] pair = {milk, <<"1l", "meiji", "milk">>} -> 70
          [] pair = {milk, <<"1", "litre", "milk", "uht">>} -> 61
          [] pair = {milk, <<"320ml", "can", "coke">>} -> 29
          [] pair = {milk, <<"curry", "maggi", "noodles">>} -> 31
          [] pair = {maggi, <<"1l", "fresh", "milk">>} -> 23
          [] pair = {maggi, <<"1l", "meiji", "milk">>} -> 31
          [] pair = {maggi, <<"1", "litre", "milk", "uht">>} -> 21
          [] pair = {maggi, <<"320ml", "can", "coke">>} -> 37
          [] pair = {maggi, <<"curry", "maggi", "noodles">>} -> 81
          [] OTHER -> 0

token_sort_ratio(s1, s2) == ratio(process_and_sort(s1), process_and_sort(s2))

\* process.extract(query, choices, limit=limit, scorer=fuzz.token_sort_ratio):
\* the limit best choices with their scores, the best first, equal scores in
\* the order of choices.
extract(query, choices, limit) ==
    LET scored == [i \in DOMAIN choices |->
                      [match |-> choices[i], score |-> token_sort_ratio(query, choices[i])]]
        sorted == sort_desc(scored, [i \in DOMAIN scored |-> scored[i].score])
    IN  SubSeq(sorted, 1, Min(limit, Len(sorted)))

manual_mappings ==
    << [k |-> <<"MEIJI", "FRESH", "MILK", "2LTR">>,
        v |-> << <<"MEIJI", "FRESH", "MILK", "2L">>, <<"MEIJI", "2L">>, <<"2L", "FRESH">> >>],
       [k |-> <<"MEIJI", "FRESH", "MILK", "830ML">>,
        v |-> << <<"MEIJI", "FRESH", "MILK", "1L">>, <<"MEIJI", "1L">> >>],
       [k |-> <<"Coke", "320ml">>,
        v |-> << <<"COCA", "COLA", "320ML">>, <<"COKE", "CAN", "320ML">> >>],
       [k |-> <<"Coke", "1.5L">>,
        v |-> << <<"COCA", "COLA", "1.5L">>, <<"COKE", "BOTTLE", "1.5L">> >>],
       [k |-> <<"Coke", "Zero", "320ml">>,
        v |-> << <<"COCA", "COLA", "ZERO", "320ML">> >>],
       [k |-> <<"DASANI", "WATER", "600ML">>,
        v |-> << <<"DASANI", "WATER", "600ML">>, <<"WATER", "600ML">> >>],
       [k |-> <<"ANCHOR", "STRONG", "BEER", "490ML">>,
        v |-> << <<"ANCHOR", "BEER", "490ML">>, <<"ANCHOR", "STRONG">> >>],
       [k |-> <<"CARLSBERG", "DANISH", "PILSNER", "UK", "500ML">>,
        v |-> << <<"CARLSBERG", "500ML">>, <<"CARLSBERG", "BEER">> >>],
       [k |-> <<"HEINEKEN", "BEER", "490ML">>,
        v |-> << <<"HEINEKEN", "490ML">>, <<"HEINEKEN", "BEER">> >>],
       [k |-> <<"Corona", "Extra", "Pint", "355ml">>,
        v |-> << <<"CORONA", "BEER", "330ML">>, <<"CORONA", "EXTRA">> >>],
       [k |-> <<"GARDENIA", "WHITE", "BREAD", "400G">>,
        v |-> << <<"GARDENIA", "BREAD", "400G">>, <<"WHITE", "BREAD", "400G">> >>],
       [k |-> <<"GARDENIA", "WHITE", "BREAD", "600G">>,
        v |-> << <<"GARDENIA", "BREAD", "600G">>, <<"WHITE", "BREAD", "600G">> >>],
       [k |-> <<"TRENDY", "PREMIUM", "FRESH", "EGGS", "10s">>,
        v |-> << <<"FRESH", "EGGS", "10S">>, <<"EGGS", "10PCS">> >>],
       [k |-> <<"Tomato">>,
        v |-> << <<"TOMATOES">>, <<"FRESH", "TOMATO">> >>],
       [k |-> <<"Red", "Onion">>,
        v |-> << <<"ONIONS">>, <<"RED", "ONIONS">> >>],
       [k |-> <<"MARLBORO", "BLACK", "MENTHOL">>,
        v |-> << <<"MARLBORO", "BLACK">>, <<"MARLBORO", "MENTHOL">> >>],
       [k |-> <<"LD", "Blue", "Longs">>,
        v |-> << <<"LD", "BLUE">>, <<"LD", "CIGARETTES">> >>] >>

\* A ProductMatcher as __init__ leaves it before _load_product_mappings.
empty_matcher == [pos_to_supplier_map |-> <<>>, supplier_to_pos_map |-> <<>>]

\* supplier_to_pos_map[supplier_name].append(pos_name) for each supplier name.
RECURSIVE append_pos(_, _, _)
append_pos(supplier_to_pos_map, supplier_names, pos_name) ==
    IF supplier_names = <<>> THEN supplier_to_pos_map
    ELSE LET supplier_name == Head(supplier_names)
             so_far == IF dict_has(supplier_to_pos_map, supplier_name)
                       THEN dict_get(supplier_to_pos_map, supplier_name) ELSE <<>>
         IN  append_pos(dict_put(supplier_to_pos_map, supplier_name, Append(so_far, pos_name)),
                        Tail(supplier_names), pos_name)

\* One entry of the matcher: pos_name mapped to supplier_names, both ways.
map_product(matcher, pos_name, supplier_names) ==
    [pos_to_supplier_map |-> dict_put(matcher.pos_to_supplier_map, pos_name, supplier_names),
     supplier_to_pos_map |-> append_pos(matcher.supplier_to_pos_map, supplier_names, pos_name)]

\* _create_manual_mappings over the entries of the table that are left.
RECURSIVE create_manual_mappings(_, _)
create_manual_mappings(matcher, mappings) ==
    IF mappings = <<>> THEN matcher
    ELSE create_manual_mappings(map_product(matcher, Head(mappings).k, Head(mappings).v),
                                Tail(mappings))

\* The matches of extract that reach the threshold.
good_matches_of(matches, threshold) ==
    LET good == SelectSeq(matches, LAMBDA match : match.score >= threshold)
    IN  [i \in DOMAIN good |-> good[i].match]

auto_match_threshold == 70

on_demand_threshold == 60

\* _auto_match_products: pos_products and invoice_products are the two sets
\* in the order their iteration gives.
RECURSIVE auto_match_products(_, _, _)
auto_match_products(matcher, pos_products, invoice_products) ==
    IF pos_products = <<>> THEN matcher
    ELSE LET pos_product == Head(pos_products)
             matches == extract(pos_product, invoice_products, 3)
             good_matches == good_matches_of(matches, auto_match_threshold)
             next == IF dict_has(matcher.pos_to_supplier_map, pos_product) THEN matcher
                     ELSE IF good_matches # <<>>
                          THEN map_product(matcher, pos_product, good_matches)
                          ELSE matcher
         IN  auto_match_products(next, Tail(pos_products), invoice_products)

\* The orders in which a set can be iterated.
orders_of(S) ==
    {s \in [1..Cardinality(S) -> S] : \A x \in S : \E i \in DOMAIN s : s[i] = x}

\* set(trans_df['Transaction Item'].dropna().unique())
pos_products_of(sheet) == {sheet[i].item : i \in DOMAIN sheet}

\* set(invoice_df['item_name'].dropna().unique())
invoice_products_of(invoices) == {invoices[i].item_name : i \in DOMAIN invoices}

\* _load_product_mappings: the manual mappings, then the automatic ones when
\* the tables and the sheet could be read; the manual ones alone when not.
load_product_mappings(readable, pos_products, invoice_products) ==
    LET manual == create_manual_mappings(empty_matcher, manual_mappings)
    IN  IF readable THEN auto_match_products(manual, pos_products, invoice_products)
        ELSE manual

\* find_supplier_for_product: the mapped names, else the two best invoice
\* names on demand; None when none is good enough.
find_supplier_for_product(matcher, invoices, pos_product_name) ==
    IF dict_has(matcher.pos_to_supplier_map, pos_product_name)
    THEN Some(dict_get(matcher.pos_to_supplier_map, pos_product_name))
    ELSE LET invoice_products == unique([i \in DOMAIN invoices |-> invoices[i].item_name])
             matches == extract(pos_product_name, invoice_products, 2)
             good_matches == good_matches_of(matches, on_demand_threshold)
         IN  IF good_matches # <<>> THEN Some(good_matches) ELSE None

\* get_supplier_from_invoice: the supplier of the last invoice row of the name.
get_supplier_from_invoice(invoices, product_name) ==
    LET rows == {i \in DOMAIN invoices : invoices[i].item_name = product_name}
    IN  IF rows = {} THEN None
        ELSE Some(invoices[CHOOSE i \in rows : \A j \in rows : j <= i].supplier_name)

\* What lines 311-315 of generate_daily_recommendations get from the matcher
\* for one product: each supplier product with its supplier.
supplier_matches_of(matcher, invoices, product_name) ==
    LET answer == find_supplier_for_product(matcher, invoices, product_name)
        names == IF answer.some THEN answer.val ELSE <<>>
    IN  [i \in DOMAIN names |->
            [supplier_product |-> names[i],
             supplier_name |-> get_supplier_from_invoice(invoices, names[i])]]

\* The same for every product with a sales pattern.
matcher_answers(matcher, invoices, patterns) ==
    [i \in DOMAIN patterns |->
        [product_name |-> patterns[i].product_name,
         matches |-> supplier_matches_of(matcher, invoices, patterns[i].product_name)]]

\* product_matcher.find_supplier_for_product, each supplier product paired
\* with what get_supplier_from_invoice answers for it.
matches_of(matcher, product_name) ==
    IF \E i \in DOMAIN matcher : matcher[i].product_name = product_name
    THEN matcher[CHOOSE i \in DOMAIN matcher : matcher[i].product_name = product_name].matches
    ELSE <<>>

top_products_of(patterns) ==
    LET sorted == sort_desc(patterns, [i \in DOMAIN patterns |-> patterns[i].total_sold_90_days])
    IN  SubSeq(sorted, 1, Min(Len(sorted), 100))

list_of(supplier_recommendations, supplier_name) ==
    IF dict_has(supplier_recommendations, supplier_name)
    THEN dict_get(supplier_recommendations, supplier_name) ELSE <<>>

\* The recommendation of the direct path.
direct_recommendation(pattern, supplier_match, reorder_info) ==
    [product_name |-> pattern.product_name,
     supplier_product_name |-> [prefix |-> "", name |-> supplier_match.supplier_product],
     supplier_name |-> supplier_match.supplier_name.val,
     recommended_quantity |-> round_ratio(reorder_info.reorder_quantity, predict_den),
     current_stock |-> reorder_info.current_stock,
     predicted_demand |-> round_ratio(10 * reorder_info.predicted_demand, predict_den),
     urgency |-> reorder_info.urgency,
     supplier_frequency |-> reorder_info.supplier_delivery_frequency,
     order_priority |-> calculate_priority(reorder_info, pattern)]

\* The inner loop of the direct path over the supplier products of one product.
RECURSIVE direct_matches(_, _, _, _, _, _)
direct_matches(matches, pattern, patterns, suppliers, inventory, supplier_recommendations) ==
    IF matches = <<>> THEN supplier_recommendations
    ELSE LET supplier_match == Head(matches)
             supplier_name == supplier_match.supplier_name
             reorder_info == calculate_reorder_point(patterns, suppliers, inventory,
                                 pattern.product_name, supplier_name.val)
             emit == /\ supplier_name.some
                     /\ in_supplier_patterns(suppliers, supplier_name.val)
                     /\ reorder_info.reorder_quantity > 0
             next == IF emit
                     THEN dict_put(supplier_recommendations, supplier_name.val,
                              Append(list_of(supplier_recommendations, supplier_name.val),
                                     direct_recommendation(pattern, supplier_match, reorder_info)))
                     ELSE supplier_recommendations
         IN  direct_matches(Tail(matches), pattern, patterns, suppliers, inventory, next)

\* The direct path: every top product against the suppliers the matcher finds.
RECURSIVE direct_path(_, _, _, _, _, _)
direct_path(products, patterns, suppliers, inventory, matcher, supplier_recommendations) ==
    IF products = <<>> THEN supplier_recommendations
    ELSE direct_path(Tail(products), patterns, suppliers, inventory, matcher,
             direct_matches(matches_of(matcher, Head(products).product_name), Head(products),
                            patterns, suppliers, inventory, supplier_recommendations))

supplier_categories(supplier_name) ==
    CASE supplier_name = "Meiji" -> {"milk", "dairy", "fresh", "meiji"}
      [] supplier_name = "Gardenia" -> {"bread", "bakery", "gardenia"}
      [] supplier_name = "SunShine" -> {"beverages", "drinks", "water", "sunshine"}
      [] supplier_name = "Helios" ->
            {"beer", "alcohol", "beverage", "anchor", "carlsberg", "heineken", "corona"}
      [] supplier_name = "Trans Orients" ->
            {"snacks", "food", "noodles", "instant", "ramen", "biscuit"}
      [] supplier_name = "Mini Group" -> {"general", "miscellaneous", "food", "snacks"}
      [] supplier_name = "F&N Foods Pte Ltd" -> {"beverages", "drinks", "soda", "cola", "coke"}
      [] supplier_name = "TRENDY EGG DISTRIBUTOR" -> {"eggs", "fresh", "trendy"}
      [] supplier_name = "MalaysiaDairy" -> {"milk", "dairy", "malaysia"}
      [] supplier_name = "Lotus Vegetables" ->
            {"vegetables", "fresh", "tomato", "onion", "carrot", "potato"}
      [] supplier_name = "KEAN ANN" -> {"general", "food", "snacks"}
      [] supplier_name = "Camel nuts" -> {"nuts", "snacks"}
      [] supplier_name = "Dasoon" -> {"general", "food"}
      [] supplier_name = "Rompin Enterprise" -> {"general", "food"}
      [] supplier_name = "JT Intl Tobacco" -> {"cigarette", "tobacco", "marlboro", "kent", "salem"}
      [] supplier_name = "Philip Morris" -> {"cigarette", "tobacco", "marlboro"}
      [] supplier_name = "Babas" -> {"spices", "curry", "cooking", "indian"}
      [] OTHER -> {"general"}

specialized_suppliers == {"JT Intl Tobacco", "Philip Morris", "TRENDY EGG DISTRIBUTOR"}

\* any(keyword.lower() in product_lower ...): the names of the universe hold
\* a keyword only as a whole word.
matches_category(product_name, supplier_keywords) ==
    \E i \in DOMAIN product_name : lower_token(product_name[i]) \in supplier_keywords

\* The recommendation of the category path.
category_recommendation(pattern, supplier_name, suppliers, predicted_demand, by_category) ==
    [product_name |-> pattern.product_name,
     supplier_product_name |-> [prefix |-> "Category Match", name |-> pattern.product_name],
     supplier_name |-> supplier_name,
     recommended_quantity |-> Max(round_ratio(2 * predicted_demand, predict_den), 3),
     current_stock |-> 0,
     predicted_demand |-> round_ratio(10 * predicted_demand, predict_den),
     urgency |-> IF predicted_demand > 5 * predict_den THEN "high"
                 ELSE IF predicted_demand > 2 * predict_den THEN "medium"
                 ELSE "low",
     supplier_frequency |-> supplier_pattern_of(suppliers, supplier_name).delivery_frequency,
     order_priority |-> IF by_category THEN 700 ELSE 600]

\* The loop of _find_products_for_supplier, left once six products are found.
RECURSIVE find_products_loop(_, _, _, _, _, _)
find_products_loop(products, supplier_name, patterns, suppliers, assigned_products, found) ==
    IF products = <<>> \/ Len(found) >= 6 THEN found
    ELSE LET pattern == Head(products)
             supplier_keywords == supplier_categories(supplier_name)
             by_category == matches_category(pattern.product_name, supplier_keywords)
             is_specialized == supplier_name \in specialized_suppliers
             candidate == /\ pattern.product_name \notin assigned_products
                          /\ \/ by_category
                             \/ /\ "general" \in supplier_keywords
                                /\ ~is_specialized
                                /\ pattern.avg_daily_sales > 20
             predicted_demand == predict_demand(patterns, pattern.product_name, 7)
             next == IF candidate /\ 2 * predicted_demand > predict_den
                     THEN Append(found, category_recommendation(pattern, supplier_name,
                                            suppliers, predicted_demand, by_category))
                     ELSE found
         IN  find_products_loop(Tail(products), supplier_name, patterns, suppliers,
                                assigned_products, next)

\* _find_products_for_supplier
find_products_for_supplier(supplier_name, top_products, patterns, suppliers, assigned_products) ==
    find_products_loop(SubSeq(top_products, 1, Min(Len(top_products), 30)), supplier_name,
                       patterns, suppliers, assigned_products, <<>>)

names_in(products) == {products[i].product_name : i \in DOMAIN products}

assigned_in(supplier_recommendations) ==
    UNION {names_in(supplier_recommendations[i].v) : i \in DOMAIN supplier_recommendations}

\* The category path: every supplier that should order today and has no
\* recommendation yet is given the products of its categories.
RECURSIVE category_path(_, _, _, _, _, _, _)
category_path(todo, top_products, patterns, suppliers, target_date, supplier_recommendations, assigned_products) ==
    IF todo = <<>> THEN supplier_recommendations
    ELSE LET supplier_name == Head(todo).supplier_name
             potential_products ==
                 find_products_for_supplier(supplier_name, top_products, patterns, suppliers,
                                            assigned_products)
             take == /\ should_order_today(suppliers, supplier_name, target_date)
                     /\ ~dict_has(supplier_recommendations, supplier_name)
                     /\ potential_products # <<>>
         IN  IF take
             THEN category_path(Tail(todo), top_products, patterns, suppliers, target_date,
                      dict_put(supplier_recommendations, supplier_name, potential_products),
                      assigned_products \cup names_in(potential_products))
             ELSE category_path(Tail(todo), top_products, patterns, suppliers, target_date,
                      supplier_recommendations, assigned_products)

\* The recommendation of the fallback path.
fallback_recommendation(pattern, supplier_name, suppliers, predicted_demand) ==
    [product_name |-> pattern.product_name,
     supplier_product_name |-> [prefix |-> "High Demand", name |-> pattern.product_name],
     supplier_name |-> supplier_name,
     recommended_quantity |-> Max(round_ratio(2 * predicted_demand, predict_den), 5),
     current_stock |-> 0,
     predicted_demand |-> round_ratio(10 * predicted_demand, predict_den),
     urgency |-> IF predicted_demand > 5 * predict_den THEN "high" ELSE "medium",
     supplier_frequency |-> supplier_pattern_of(suppliers, supplier_name).delivery_frequency,
     order_priority |-> 850]

RECURSIVE fallback_products(_, _, _, _, _)
fallback_products(assigned, supplier_name, patterns, suppliers, found) ==
    IF assigned = <<>> THEN found
    ELSE LET pattern == Head(assigned)
             predicted_demand == predict_demand(patterns, pattern.product_name, 7)
         IN  fallback_products(Tail(assigned), supplier_name, patterns, suppliers,
                 IF predicted_demand > 0
                 THEN Append(found, fallback_recommendation(pattern, supplier_name, suppliers,
                                                            predicted_demand))
                 ELSE found)

\* The loop of the fallback over the active suppliers.
RECURSIVE fallback_loop(_, _, _, _, _, _)
fallback_loop(active_suppliers, high_demand_products, patterns, suppliers, supplier_counter, supplier_recommendations) ==
    IF active_suppliers = <<>> THEN supplier_recommendations
    ELSE LET supplier_name == Head(active_suppliers).supplier_name
             start_idx == supplier_counter * 3
             end_idx == start_idx + 3
             assigned == IF start_idx < Len(high_demand_products)
                         THEN SubSeq(high_demand_products, start_idx + 1,
                                     Min(end_idx, Len(high_demand_products)))
                         ELSE <<>>
             recommendations_for_supplier ==
                 fallback_products(assigned, supplier_name, patterns, suppliers, <<>>)
         IN  IF dict_has(supplier_recommendations, supplier_name)
             THEN fallback_loop(Tail(active_suppliers), high_demand_products, patterns,
                                suppliers, supplier_counter, supplier_recommendations)
             ELSE fallback_loop(Tail(active_suppliers), high_demand_products, patterns,
                                suppliers, supplier_counter + 1,
                                IF recommendations_for_supplier # <<>>
                                THEN dict_put(supplier_recommendations, supplier_name,
                                              recommendations_for_supplier)
                                ELSE supplier_recommendations)

\* The fallback path, taken when fewer than five suppliers have recommendations.
fallback_path(top_products, patterns, suppliers, target_date, supplier_recommendations) ==
    IF Len(supplier_recommendations) >= 5 THEN supplier_recommendations
    ELSE LET high_demand_products ==
                 SelectSeq(SubSeq(top_products, 1, Min(Len(top_products), 30)),
                           LAMBDA p : p.avg_daily_sales > 15)
             ordering == SelectSeq(suppliers,
                             LAMBDA sp : should_order_today(suppliers, sp.supplier_name,
                                                            target_date))
             active_suppliers == SubSeq(ordering, 1, Min(Len(ordering), 15))
         IN  fallback_loop(active_suppliers, high_demand_products, patterns, suppliers, 0,
                           supplier_recommendations)

urgent_products(products) ==
    Cardinality({i \in DOMAIN products : products[i].urgency \in {"critical", "high"}})

RECURSIVE sum_quantity(_)
sum_quantity(products) ==
    IF products = <<>> THEN 0
    ELSE Head(products).recommended_quantity + sum_quantity(Tail(products))

\* One entry of final_recommendations.
final_entry(entry, suppliers, target_date) ==
    LET products == sort_desc(entry.v, [i \in DOMAIN entry.v |-> entry.v[i].order_priority])
        pattern == supplier_pattern_of(suppliers, entry.k)
    IN  [supplier_name |-> entry.k,
         products |-> products,
         total_products |-> Len(products),
         estimated_order_amount |-> 5 * sum_quantity(products),
         delivery_frequency |-> pattern.delivery_frequency,
         last_order_days_ago |-> target_date - pattern.last_order_date,
         should_order_today |-> should_order_today(suppliers, entry.k, target_date)]

\* The sort key (urgent products, total_products) as one number; no supplier
\* of the model has a hundred products.
final_sort_key(final) == 100 * urgent_products(final.products) + final.total_products

\* generate_daily_recommendations
generate_daily_recommendations(target_date, patterns, suppliers, inventory, matcher) ==
    LET top_products == top_products_of(patterns)
        direct == direct_path(top_products, patterns, suppliers, inventory, matcher, <<>>)
        by_category == category_path(suppliers, top_products, patterns, suppliers, target_date,
                                     direct, assigned_in(direct))
        supplier_recommendations ==
            fallback_path(top_products, patterns, suppliers, target_date, by_category)
        with_products == SelectSeq(supplier_recommendations, LAMBDA entry : entry.v # <<>>)
        final == [i \in DOMAIN with_products |->
                     final_entry(with_products[i], suppliers, target_date)]
    IN  sort_desc(final, [i \in DOMAIN final |-> final_sort_key(final[i])])

\* generate_14_day_schedule: the recommendations of each of the 14 days
\* from start_date whose supplier should order on that day.
schedule_days == 14

items_with_urgency(daily_orders, urgency) ==
    sum_of([i \in DOMAIN daily_orders |->
               Cardinality({j \in DOMAIN daily_orders[i].products :
                               daily_orders[i].products[j].urgency = urgency})])

\* The recommendations of a day whose supplier should order on it.
orders_of_day(day_recommendations) ==
    SelectSeq(day_recommendations, LAMBDA rec : rec.should_order_today)

\* One entry of the schedule.
schedule_entry(date, daily_orders) ==
    [date |-> date,
     recommendations |-> daily_orders,
     total_suppliers |-> Len(daily_orders),
     critical_items |-> items_with_urgency(daily_orders, "critical"),
     high_priority_items |-> items_with_urgency(daily_orders, "high")]

generate_14_day_schedule(first_date, patterns, suppliers, inventory, matcher) ==
    [day \in 1..schedule_days |->
        schedule_entry(first_date + (day - 1),
            orders_of_day(generate_daily_recommendations(first_date + (day - 1), patterns,
                              suppliers, inventory, matcher)))]

(***************************************************************************)
(* Input universe.                                                         *)
(***************************************************************************)
Suppliers == {"ACME", "BETA"}

SupplierOrders == {<<"ACME", "BETA">>, <<"BETA", "ACME">>}

DemandRows ==
    { [item_name |-> <<"Tea", "bag">>, category |-> "Beverages", barcode |-> 0,
       weekly_demand_qty |-> 25, weekly_demand_value_sgd |-> 30],
      [item_name |-> <<"tea", "bag">>, category |-> "Beverages", barcode |-> 0,
       weekly_demand_qty |-> 255, weekly_demand_value_sgd |-> 25],
      [item_name |-> <<"rice">>, category |-> "Staples", barcode |-> 7,
       weekly_demand_qty |-> 10, weekly_demand_value_sgd |-> 20],
      [item_name |-> <<"cola">>, category |-> "Beverages", barcode |-> 0,
       weekly_demand_qty |-> 14, weekly_demand_value_sgd |-> 20],
      [item_name |-> <<"tea">>, category |-> "Beverages", barcode |-> 0,
       weekly_demand_qty |-> 0, weekly_demand_value_sgd |-> 0],
      [item_name |-> <<"soap">>, category |-> "Household", barcode |-> 0,
       weekly_demand_qty |-> 30, weekly_demand_value_sgd |-> 10],
      [item_name |-> <<"Milk">>, category |-> "Milk Curd Yoghurt Batter", barcode |-> 0,
       weekly_demand_qty |-> 50, weekly_demand_value_sgd |-> 40] }

CatalogRows ==
    { [product_name |-> <<"tea", "bag", " ">>, unit_cost |-> 4252, cost_parses |-> TRUE,
       barcode |-> 0],
      [product_name |-> <<"Rice">>, unit_cost |-> 1200000, cost_parses |-> TRUE,
       barcode |-> 7],
      [product_name |-> <<"cola">>, unit_cost |-> 1500000, cost_parses |-> TRUE,
       barcode |-> 0],
      [product_name |-> <<"soap">>, unit_cost |-> 0, cost_parses |-> FALSE,
       barcode |-> 0] }

InvoiceRows ==
    { [supplier_name |-> "ACME", item_name |-> <<"tea", "bag">>, carton_or_loose |-> "Pack",
       items_per_carton |-> 12, unit_price |-> 60000, unit_price_item |-> 5000,
       invoice_date |-> 4],
      [supplier_name |-> "BETA", item_name |-> <<"Tea", "bag">>, carton_or_loose |-> "loose",
       items_per_carton |-> 0, unit_price |-> 0, unit_price_item |-> 4500,
       invoice_date |-> 3],
      [supplier_name |-> "BETA", item_name |-> <<"rice">>, carton_or_loose |-> "loose",
       items_per_carton |-> 0, unit_price |-> 0, unit_price_item |-> 1300000,
       invoice_date |-> 2],
      [supplier_name |-> "ACME", item_name |-> <<"cola">>, carton_or_loose |-> "carton",
       items_per_carton |-> 2, unit_price |-> 0, unit_price_item |-> 1500000,
       invoice_date |-> 1],
      [supplier_name |-> "BETA", item_name |-> <<"tea">>, carton_or_loose |-> "loose",
       items_per_carton |-> 0, unit_price |-> 0, unit_price_item |-> 6000,
       invoice_date |-> 5] }

SeqsUpTo(S, n) == UNION {[1..k -> S] : k \in 0..n}

distinct_rows(s) == \A i, j \in DOMAIN s : i # j => s[i] # s[j]

\* Query results: any order the ORDER BY clause allows, ties included.
DemandTables ==
    {s \in SeqsUpTo(DemandRows, MaxItems) :
        /\ distinct_rows(s)
        /\ \A i, j \in DOMAIN s :
              i < j => s[i].weekly_demand_value_sgd >= s[j].weekly_demand_value_sgd}

CatalogTables == {s \in SeqsUpTo(CatalogRows, MaxCatalog) : distinct_rows(s)}

InvoiceTables ==
    {s \in SeqsUpTo(InvoiceRows, MaxInvoices) :
        /\ distinct_rows(s)
        /\ \A i, j \in DOMAIN s : i < j => s[i].invoice_date >= s[j].invoice_date}

(***************************************************************************)
(* Input universe of the daily engine.                                     *)
(***************************************************************************)
\* One entry of self.sales_patterns; total_sold_90_days is the sum of the
\* daily quantities.
sales_pattern(product_name, avg_daily_sales, days_with_sales, trend) ==
    [product_name |-> product_name,
     total_sold_90_days |-> (avg_daily_sales * days_with_sales) \div 10,
     avg_daily_sales |-> avg_daily_sales,
     days_with_sales |-> days_with_sales,
     trend |-> trend]

SalesPatternRows ==
    { sales_pattern(<<"Coke", "320ml">>, 30, 45, "increasing"),
      sales_pattern(<<"Milk", "1L">>, 10, 10, "stable"),
      sales_pattern(<<"Milk", "1L">>, 10, 13, "stable"),
      sales_pattern(<<"Maggi", "Noodles">>, 25, 90, "decreasing") }

\* One entry of self.supplier_patterns, as _load_supplier_patterns builds it.
supplier_pattern(supplier_name, avg_days_between, last_order_date) ==
    pattern_entry(supplier_name, [num |-> avg_days_between, den |-> 1], last_order_date)

SupplierPatternRows ==
    { supplier_pattern("Meiji", 3, 0),
      supplier_pattern("F&N Foods Pte Ltd", 7, 0),
      supplier_pattern("Dasoon", 10, 0) }

StockRows ==
    { [item_name |-> <<"COKE", "320ML">>, current_quantity |-> 0],
      [item_name |-> <<"COKE", "320ML">>, current_quantity |-> 10],
      [item_name |-> <<"COKE", "320ML">>, current_quantity |-> 100],
      [item_name |-> <<"Coke", "Zero", "320ml">>, current_quantity |-> -2],
      [item_name |-> <<"Fresh", "Milk", "1L">>, current_quantity |-> 6] }

coke_from_fn ==
    [product_name |-> <<"Coke", "320ml">>,
     matches |-> << [supplier_product |-> <<"COCA", "COLA", "320ML">>,
                     supplier_name |-> None],
                    [supplier_product |-> <<"COKE", "CAN", "320ML">>,
                     supplier_name |-> Some("F&N Foods Pte Ltd")] >>]

milk_from_meiji ==
    [product_name |-> <<"Milk", "1L">>,
     matches |-> << [supplier_product |-> <<"Fresh", "Milk", "1L">>,
                     supplier_name |-> Some("Meiji")] >>]

MatcherTables == { <<>>, <<coke_from_fn>>, <<coke_from_fn, milk_from_meiji>> }

TargetDates == {2, 8, 12}

SalesPatternTables ==
    {t \in SeqsUpTo(SalesPatternRows, MaxProducts) :
        \A i, j \in DOMAIN t : i # j => t[i].product_name # t[j].product_name}

SupplierPatternTables ==
    {t \in SeqsUpTo(SupplierPatternRows, MaxPatterns) :
        \A i, j \in DOMAIN t : i # j => t[i].supplier_name # t[j].supplier_name}

StockTables ==
    {t \in SeqsUpTo(StockRows, MaxStock) :
        \A i, j \in DOMAIN t : i # j => t[i].item_name # t[j].item_name}


\* First days of the target months tried: a 4-week and a 5-week month.
Months == {[year |-> 2025, month |-> 2], [year |-> 2025, month |-> 11]}

(***************************************************************************)
(* The price change detector (refresh_price_changes.py).                  *)
(***************************************************************************)
\* get_invoice_items_with_prices: rows with unit_price_item > 0, most recent
\* first; the first row of a key is stored with its per-item price num / den.
RECURSIVE load_invoice_items(_, _)
load_invoice_items(rows, items) ==
    IF rows = <<>> THEN items
    ELSE LET row == Head(rows)
             key == name_key(row.item_name)
             is_carton == lower_token(row.carton_or_loose) \in carton_words
             items_per_carton == IF row.items_per_carton # 0 THEN row.items_per_carton ELSE 1
             per_carton == is_carton /\ items_per_carton > 1
             entry == [supplier |-> row.supplier_name,
                       price_num |-> IF per_carton /\ row.unit_price > 0
                                     THEN row.unit_price ELSE row.unit_price_item,
                       price_den |-> IF per_carton THEN items_per_carton ELSE 1,
                       item_name_original |-> row.item_name]
         IN  load_invoice_items(Tail(rows),
                 IF row.unit_price_item > 0 /\ ~dict_has(items, key)
                 THEN dict_put(items, key, entry) ELSE items)

get_invoice_items_with_prices(invoices) == load_invoice_items(invoices, <<>>)

\* The detector's get_product_inventory_costs stores name keys only.
RECURSIVE det_load_costs(_, _)
det_load_costs(rows, costs) ==
    IF rows = <<>> THEN costs
    ELSE LET row == Head(rows)
         IN  det_load_costs(Tail(rows),
                 IF row.cost_parses
                 THEN dict_put(costs, name_key(row.product_name),
                               [product_name |-> row.product_name, unit_cost |-> row.unit_cost])
                 ELSE costs)

det_get_product_inventory_costs(catalog) == det_load_costs(catalog, <<>>)

\* The detector's compare_prices divides by the inventory price unguarded:
\* an exactly matched product with unit_cost 0 raises ZeroDivisionError.
\* (Unit costs of the input universe are never negative.)
det_compare_raises(invoices, catalog) ==
    LET invoice_items == get_invoice_items_with_prices(invoices)
        inventory_items == det_get_product_inventory_costs(catalog)
    IN  \E i \in DOMAIN invoice_items :
            /\ dict_has(inventory_items, invoice_items[i].k)
            /\ dict_get(inventory_items, invoice_items[i].k).unit_cost = 0

RECURSIVE det_compare_loop(_, _)
det_compare_loop(invoice_items, inventory_items) ==
    IF invoice_items = <<>> THEN <<>>
    ELSE LET e == Head(invoice_items)
             inventory_price == dict_get(inventory_items, e.k).unit_cost
             diff_num == e.v.price_num - inventory_price * e.v.price_den
             base == inventory_price * e.v.price_den
             flagged == above_tolerance(inventory_price, e.v.price_num, e.v.price_den)
             change == [item_name |-> e.v.item_name_original,
                        supplier |-> e.v.supplier,
                        inventory_price |-> round2(inventory_price),
                        invoice_price |-> 10 * round_ratio(e.v.price_num, 10 * e.v.price_den),
                        price_difference |-> 10 * round_ratio(diff_num, 10 * e.v.price_den),
                        percentage_hike |-> round_ratio(diff_num * 10000, base)]
         IN  (IF dict_has(inventory_items, e.k) /\ flagged THEN <<change>> ELSE <<>>)
             \o det_compare_loop(Tail(invoice_items), inventory_items)

\* A detector that reports only the hikes the table did not hold when
\* refresh() was entered.
det_compare_only_new(invoices, catalog) ==
    SelectSeq(det_compare_loop(get_invoice_items_with_prices(invoices),
                               det_get_product_inventory_costs(catalog)),
              LAMBDA change : ~\E row \in det_at_start :
                                  /\ row.item_name = change.item_name
                                  /\ row.supplier = change.supplier
                                  /\ row.inventory_price = change.inventory_price
                                  /\ row.invoice_price = change.invoice_price)

det_compare_prices(invoices, catalog) ==
    det_compare_loop(get_invoice_items_with_prices(invoices),
                     det_get_product_inventory_costs(catalog))

(***************************************************************************)
(* The output tables.                                                      *)
(***************************************************************************)
RECURSIVE insert_recommendations(_, _, _)
insert_recommendations(table, recs, first_id) ==
    IF recs = <<>> THEN table
    ELSE insert_recommendations(
             table \cup { [id |-> first_id,
                           supplier_name |-> Head(recs).supplier_name,
                           recommended_date |-> Head(recs).recommended_date,
                           total_amount_sgd |-> Head(recs).total_amount_sgd,
                           items |-> Head(recs).items,
                           status |-> Head(recs).status] },
             Tail(recs), first_id + 1)

\* UNIQUE(item_name, supplier, inventory_price, invoice_price)
same_price_change(row, change) ==
    /\ row.item_name = change.item_name
    /\ row.supplier = change.supplier
    /\ row.inventory_price = change.inventory_price
    /\ row.invoice_price = change.invoice_price

\* INSERT OR IGNORE of each change in turn; a row is [table, next id].
RECURSIVE insert_or_ignore(_, _, _)
insert_or_ignore(table, changes, next_id) ==
    IF changes = <<>> THEN [table |-> table, next_id |-> next_id]
    ELSE LET change == Head(changes)
         IN  IF \E row \in table : same_price_change(row, change)
             THEN insert_or_ignore(table, Tail(changes), next_id)
             ELSE insert_or_ignore(
                      table \cup { [id |-> next_id,
                                    item_name |-> change.item_name,
                                    supplier |-> change.supplier,
                                    inventory_price |-> change.inventory_price,
                                    invoice_price |-> change.invoice_price,
                                    price_difference |-> change.price_difference,
                                    percentage_hike |-> change.percentage_hike,
                                    reviewed |-> FALSE] },
                      Tail(changes), next_id + 1)

pending_rows(table) == {row \in table : row.status = "pending"}

(***************************************************************************)
(* run(target_month, clear_existing=True)                                  *)
(*                                                                         *)
(* target_month is the sequence of the parts of the string around "-",    *)
(* each part the integer int() makes of it, or -1 when int() raises;      *)
(* <<>> is a month that is not given (None, or the empty string: run()     *)
(* tests the argument for truth).                                          *)
(***************************************************************************)
not_given == <<>>

TargetMonths == {not_given, <<2025, 11>>, <<2025, 13>>, <<2025, -1>>, <<2025>>}

\* datetime.now() of a run that is given no month.
Todays == {[year |-> 2025, month |-> 12]}

no_date == [year |-> 0, month |-> 0]

\* Mutant of parse_raises: datetime() that takes any month number.
parse_accepts_any_month(tm) ==
    \/ Len(tm) # 2
    \/ \E i \in DOMAIN tm : tm[i] = -1
    \/ tm[1] \notin 1..9999

\* year, month = map(int, target_month.split('-')); datetime(year, month, 1)
parse_raises(tm) ==
    \/ Len(tm) # 2
    \/ \E i \in DOMAIN tm : tm[i] = -1
    \/ tm[1] \notin 1..9999
    \/ tm[2] \notin 1..12

next_month(today) ==
    IF today.month = 12 THEN [year |-> today.year + 1, month |-> 1]
    ELSE [year |-> today.year, month |-> today.month + 1]

empty_tables == [order_recommendations |-> {}, price_changes |-> {}]

committed == [order_recommendations |-> order_recommendations,
              price_changes |-> price_changes_table]

run_locals == <<target_month, start_date, deleted, items_with_costs, recommendations,
                price_changes, committed_at_start>>

detector == <<det_pc, det_price_changes, det_at_start, n_refresh>>

tables == <<order_recommendations, price_changes_table, next_rec_id, next_pc_id>>

\* Lines 677-691: parse the month; an exception leaves run() at once.
\* (Runs are numbered in the order they start.)
run_enter(r, tm, today) ==
    /\ pc[r] = "idle"
    /\ \A q \in Runs : q < r => pc[q] # "idle"
    /\ target_month' = [target_month EXCEPT ![r] = tm]
    /\ committed_at_start' = [committed_at_start EXCEPT ![r] = committed]
    /\ IF tm # not_given /\ parse_raises(tm)
       THEN /\ pc' = [pc EXCEPT ![r] = "failed"]
            /\ UNCHANGED start_date
       ELSE /\ pc' = [pc EXCEPT ![r] = "clear"]
            /\ start_date' = [start_date EXCEPT ![r] =
                   IF tm = not_given THEN next_month(today)
                   ELSE [year |-> tm[1], month |-> tm[2]]]
    /\ UNCHANGED <<inputs, daily, supplier_order_patterns, tables, deleted, items_with_costs, recommendations,
                   price_changes, detector, n_updates, view>>

\* Mutants of clear_pending_recommendations: a DELETE without the WHERE
\* clause, and no DELETE at all.
clear_all_recommendations(table) == {}

clear_no_recommendations(table) == table

\* clear_pending_recommendations: DELETE ... WHERE status = 'pending'; commit.
clear_pending_recommendations(table) == table \ pending_rows(table)

run_clear(r) ==
    /\ pc[r] = "clear"
    /\ order_recommendations' = clear_pending_recommendations(order_recommendations)
    /\ deleted' = [deleted EXCEPT ![r] = Cardinality(pending_rows(order_recommendations))]
    /\ pc' = [pc EXCEPT ![r] = "generate"]
    /\ UNCHANGED <<inputs, daily, supplier_order_patterns, price_changes_table, next_rec_id, next_pc_id, target_month,
                   start_date, items_with_costs, recommendations, price_changes,
                   committed_at_start, detector, n_updates, view>>

\* generate_monthly_recommendations(start_date): reads the input tables only.
run_generate(r, supplier_order) ==
    /\ pc[r] = "generate"
    /\ ~month_end_raises(start_date[r])
    /\ LET plan == generate_monthly_recommendations(start_date[r], demand_forecasts,
                       product_inventory_table, invoice_table, supplier_order)
       IN  /\ items_with_costs' = [items_with_costs EXCEPT ![r] = plan.items_with_costs]
           /\ recommendations' = [recommendations EXCEPT ![r] = plan.recommendations]
           /\ price_changes' = [price_changes EXCEPT ![r] = plan.price_changes]
    /\ pc' = [pc EXCEPT ![r] = "save"]
    /\ UNCHANGED <<inputs, daily, supplier_order_patterns, tables, target_month, start_date, deleted, committed_at_start,
                   detector, n_updates, view>>

\* save_recommendations: INSERT every recommendation; commit.
run_save(r) ==
    /\ pc[r] = "save"
    /\ order_recommendations' =
           insert_recommendations(order_recommendations, recommendations[r], next_rec_id)
    /\ next_rec_id' = next_rec_id + Len(recommendations[r])
    /\ pc' = [pc EXCEPT ![r] = "save_price_changes"]
    /\ UNCHANGED <<inputs, daily, supplier_order_patterns, price_changes_table, next_pc_id, run_locals, detector,
                   n_updates, view>>

\* save_price_changes: INSERT OR IGNORE every change; commit; run() returns.
run_save_price_changes(r) ==
    /\ pc[r] = "save_price_changes"
    /\ LET saved == insert_or_ignore(price_changes_table, price_changes[r], next_pc_id)
       IN  /\ price_changes_table' = saved.table
           /\ next_pc_id' = saved.next_id
    /\ pc' = [pc EXCEPT ![r] = "done"]
    /\ UNCHANGED <<inputs, daily, supplier_order_patterns, order_recommendations, next_rec_id, run_locals, detector,
                   n_updates, view>>

\* An exception in the step run() is about to take (sqlite3.OperationalError on
\* a locked or unreadable database, a NULL column in a row read): the open
\* connection is dropped without commit and run() is left.
run_fail(r) ==
    /\ pc[r] \in {"clear", "generate", "save", "save_price_changes"}
    /\ pc' = [pc EXCEPT ![r] = "failed"]
    /\ UNCHANGED <<inputs, daily, supplier_order_patterns, tables, run_locals, detector, n_updates, view>>

(***************************************************************************)
(* PriceChangeDetector.refresh()                                           *)
(***************************************************************************)
\* clear_price_changes_table: DROP TABLE, CREATE TABLE; commit.
refresh_clear_upto(limit) ==
    /\ det_pc \in {"idle", "failed"}
    /\ n_refresh < limit
    /\ n_refresh' = n_refresh + 1
    /\ det_at_start' = price_changes_table
    /\ price_changes_table' = {}
    /\ next_pc_id' = 1
    /\ det_price_changes' = <<>>
    /\ det_pc' = "compare"
    /\ UNCHANGED <<inputs, daily, supplier_order_patterns, order_recommendations, next_rec_id, pc, run_locals,
                   n_updates, view>>

refresh_clear == refresh_clear_upto(MaxRefresh)

\* compare_prices: reads the input tables; ZeroDivisionError leaves refresh().
refresh_compare ==
    /\ det_pc = "compare"
    /\ IF det_compare_raises(invoice_table, product_inventory_table)
       THEN /\ det_pc' = "failed"
            /\ UNCHANGED det_price_changes
       ELSE /\ det_pc' = "save"
            /\ det_price_changes' = det_compare_prices(invoice_table, product_inventory_table)
    /\ UNCHANGED <<inputs, daily, supplier_order_patterns, tables, pc, run_locals, det_at_start, n_refresh,
                   n_updates, view>>

\* save_price_changes: INSERT OR IGNORE every change; commit; refresh() returns.
refresh_save ==
    /\ det_pc = "save"
    /\ LET saved == insert_or_ignore(price_changes_table, det_price_changes, next_pc_id)
       IN  /\ price_changes_table' = saved.table
           /\ next_pc_id' = saved.next_id
    /\ det_pc' = "idle"
    /\ UNCHANGED <<inputs, daily, supplier_order_patterns, order_recommendations, next_rec_id, pc, run_locals,
                   det_price_changes, det_at_start, n_refresh, n_updates, view>>

\* An exception in the step refresh() is about to take.
refresh_fail ==
    /\ det_pc \in {"compare", "save"}
    /\ det_pc' = "failed"
    /\ UNCHANGED <<inputs, daily, supplier_order_patterns, tables, pc, run_locals, det_price_changes, det_at_start,
                   n_refresh, n_updates, view>>

(***************************************************************************)
(* Dashboard routes (app.py).                                              *)
(***************************************************************************)
Statuses == {"pending", "ordered", "delivered"}

\* api_order_recommendations and api_price_changes: what a reader is served.
dashboard_read ==
    /\ view' = [recommendations |-> Cardinality(order_recommendations),
                price_changes |-> Cardinality(price_changes_table)]
    /\ UNCHANGED <<inputs, daily, supplier_order_patterns, tables, pc, run_locals, detector, n_updates>>

\* DATE('now') of a status update; the rows of supplier_order_patterns start
\* with an earlier last_order_date.
current_date == 1

\* api_update_recommendation_status: UPDATE ... SET status = ? WHERE id = ?
\* and, for 'delivered' only, UPDATE supplier_order_patterns SET
\* last_order_date = DATE('now') WHERE supplier_name = the row's supplier;
\* one commit.
api_update_recommendation_status(rec_id, new_status) ==
    /\ n_updates < MaxUpdates
    /\ \E row \in order_recommendations : row.id = rec_id
    /\ new_status \in Statuses
    /\ order_recommendations' =
           {IF row.id = rec_id THEN [row EXCEPT !.status = new_status] ELSE row :
                row \in order_recommendations}
    /\ LET supplier_name ==
               (CHOOSE row \in order_recommendations : row.id = rec_id).supplier_name
       IN  supplier_order_patterns' =
               IF new_status = "delivered" /\ supplier_name \in DOMAIN supplier_order_patterns
               THEN [supplier_order_patterns EXCEPT ![supplier_name] = current_date]
               ELSE supplier_order_patterns
    /\ n_updates' = n_updates + 1
    /\ UNCHANGED <<inputs, daily, price_changes_table, next_rec_id, next_pc_id, pc, run_locals,
                   detector, view>>

\* delete_invoice: DELETE FROM invoice_table WHERE id = ?  (the i-th row)
delete_invoice(i) ==
    /\ i \in DOMAIN invoice_table
    /\ invoice_table' = [j \in 1..(Len(invoice_table) - 1) |->
                             IF j < i THEN invoice_table[j] ELSE invoice_table[j + 1]]
    /\ UNCHANGED <<demand_forecasts, product_inventory_table, daily, supplier_order_patterns,
                   tables, pc, run_locals,
                   detector, n_updates, view>>

\* The rows the dashboard user acts on: the orders of a month's first week.
first_week_rows == {row \in order_recommendations : row.recommended_date.day = 1}

(***************************************************************************)
(* Specifications.                                                         *)
(***************************************************************************)
\* The database the jobs start on: tea bags are forecast, are in the catalog
\* and were invoiced by ACME in cartons at a higher price; salt was invoiced
\* too and is in the catalog at a unit cost of 0.
SnapshotDemand ==
    << [item_name |-> <<"Tea", "bag">>, category |-> "Beverages", barcode |-> 0,
        weekly_demand_qty |-> 25, weekly_demand_value_sgd |-> 30] >>

SnapshotCatalog ==
    << [product_name |-> <<"tea", "bag", " ">>, unit_cost |-> 4252, cost_parses |-> TRUE,
        barcode |-> 0],
       [product_name |-> <<"salt">>, unit_cost |-> 0, cost_parses |-> TRUE,
        barcode |-> 0] >>

SnapshotInvoices ==
    << [supplier_name |-> "ACME", item_name |-> <<"tea", "bag">>,
        carton_or_loose |-> "Pack", items_per_carton |-> 12, unit_price |-> 60000,
        unit_price_item |-> 5000, invoice_date |-> 4],
       [supplier_name |-> "ACME", item_name |-> <<"salt">>,
        carton_or_loose |-> "loose", items_per_carton |-> 0, unit_price |-> 0,
        unit_price_item |-> 800, invoice_date |-> 1] >>

InitOutputs ==
    /\ order_recommendations = {}
    /\ price_changes_table = {}
    /\ next_rec_id = 1
    /\ next_pc_id = 1
    /\ pc = [r \in Runs |-> "idle"]
    /\ target_month = [r \in Runs |-> not_given]
    /\ start_date = [r \in Runs |-> no_date]
    /\ deleted = [r \in Runs |-> 0]
    /\ items_with_costs = [r \in Runs |-> <<>>]
    /\ recommendations = [r \in Runs |-> <<>>]
    /\ price_changes = [r \in Runs |-> <<>>]
    /\ committed_at_start = [r \in Runs |-> empty_tables]
    /\ det_pc = "idle"
    /\ det_price_changes = <<>>
    /\ det_at_start = {}
    /\ n_refresh = 0
    /\ n_updates = 0
    /\ view = [recommendations |-> 0, price_changes |-> 0]
    /\ supplier_order_patterns = [supplier \in {"ACME"} |-> 0]
    /\ final_recommendations = <<>>
    /\ schedule = <<>>
    /\ product_matcher = None
    /\ find_result = None

\* The daily engine before its patterns are loaded.
InitDailyEmpty ==
    /\ daily_pc = "idle"
    /\ transaction_details = <<>>
    /\ supplier_orders_zf = <<>>
    /\ sales_patterns = <<>>
    /\ supplier_patterns = <<>>
    /\ inventory_status = <<>>
    /\ supplier_matches = <<>>

Init ==
    /\ demand_forecasts = SnapshotDemand
    /\ product_inventory_table = SnapshotCatalog
    /\ invoice_table = SnapshotInvoices
    /\ InitOutputs
    /\ InitDailyEmpty

at_rest == /\ \A r \in Runs : pc[r] \in {"idle", "done", "failed"}
           /\ det_pc \in {"idle", "failed"}

\* Requests are served by concurrent threads: every step may interleave.
Next ==
    \/ \E r \in Runs, tm \in TargetMonths, today \in Todays : run_enter(r, tm, today)
    \/ \E r \in Runs : run_clear(r)
    \/ \E r \in Runs, supplier_order \in SupplierOrders : run_generate(r, supplier_order)
    \/ \E r \in Runs : run_save(r)
    \/ \E r \in Runs : run_save_price_changes(r)
    \/ \E r \in Runs : run_fail(r)
    \/ refresh_clear
    \/ refresh_compare
    \/ refresh_save
    \/ refresh_fail
    \/ dashboard_read
    \/ \E row \in first_week_rows, new_status \in Statuses :
           api_update_recommendation_status(row.id, new_status)
    \/ \E i \in DOMAIN invoice_table : delete_invoice(i)

Spec == Init /\ [][Next]_vars

\* The batch jobs one at a time: a job and a dashboard write start only when
\* every other job is at rest; dashboard reads still interleave.
NextSeq ==
    \/ \E r \in Runs, tm \in TargetMonths, today \in Todays :
           at_rest /\ run_enter(r, tm, today)
    \/ \E r \in Runs : run_clear(r)
    \/ \E r \in Runs, supplier_order \in SupplierOrders : run_generate(r, supplier_order)
    \/ \E r \in Runs : run_save(r)
    \/ \E r \in Runs : run_save_price_changes(r)
    \/ \E r \in Runs : run_fail(r)
    \/ at_rest /\ refresh_clear
    \/ refresh_compare
    \/ refresh_save
    \/ refresh_fail
    \/ dashboard_read
    \/ \E row \in first_week_rows, new_status \in Statuses :
           at_rest /\ api_update_recommendation_status(row.id, new_status)
    \/ \E i \in DOMAIN invoice_table : at_rest /\ delete_invoice(i)

SpecSeq == Init /\ [][NextSeq]_vars

\* The planner as a function: generate_monthly_recommendations called on a
\* fresh engine, over every small content of the three input tables.
InitPlan ==
    /\ demand_forecasts \in DemandTables
    /\ product_inventory_table \in CatalogTables
    /\ invoice_table \in InvoiceTables
    /\ InitOutputs
    /\ InitDailyEmpty

plan_call(r, date, supplier_order) ==
    /\ pc[r] = "idle"
    /\ start_date' = [start_date EXCEPT ![r] = date]
    /\ IF month_end_raises(date)
       THEN /\ pc' = [pc EXCEPT ![r] = "failed"]
            /\ UNCHANGED <<items_with_costs, recommendations, price_changes>>
       ELSE /\ LET plan == generate_monthly_recommendations(date, demand_forecasts,
                               product_inventory_table, invoice_table, supplier_order)
               IN  /\ items_with_costs' = [items_with_costs EXCEPT ![r] = plan.items_with_costs]
                   /\ recommendations' = [recommendations EXCEPT ![r] = plan.recommendations]
                   /\ price_changes' = [price_changes EXCEPT ![r] = plan.price_changes]
            /\ pc' = [pc EXCEPT ![r] = "returned"]
    /\ UNCHANGED <<inputs, daily, supplier_order_patterns, tables, target_month, deleted, committed_at_start,
                   detector, n_updates, view>>

NextPlan == \E date \in Months, supplier_order \in SupplierOrders : plan_call(1, date, supplier_order)

SpecPlan == InitPlan /\ [][NextPlan]_vars

(***************************************************************************)
(* The month partition: generate_monthly_recommendations over months of    *)
(* 28, 29, 30 and 31 days, Decembers, and the last months datetime holds.  *)
(***************************************************************************)
WeekMonths ==
    { [year |-> 2025, month |-> 2], [year |-> 2024, month |-> 2],
      [year |-> 2025, month |-> 4], [year |-> 2025, month |-> 7],
      [year |-> 2025, month |-> 12], [year |-> 1, month |-> 1],
      [year |-> 9999, month |-> 11], [year |-> 9999, month |-> 12] }

InitWeeks ==
    /\ demand_forecasts \in DemandTables
    /\ product_inventory_table = SnapshotCatalog
    /\ invoice_table = SnapshotInvoices
    /\ InitOutputs
    /\ InitDailyEmpty

NextWeeks == \E date \in WeekMonths, supplier_order \in SupplierOrders : plan_call(1, date, supplier_order)

SpecWeeks == InitWeeks /\ [][NextWeeks]_vars

(***************************************************************************)
(* The daily engine as a function: generate_daily_recommendations called   *)
(* on an engine whose patterns were loaded from every small content of     *)
(* the sales, supplier-order and inventory data.                           *)
(***************************************************************************)
InitDaily ==
    /\ demand_forecasts = SnapshotDemand
    /\ product_inventory_table = SnapshotCatalog
    /\ invoice_table = SnapshotInvoices
    /\ InitOutputs
    /\ daily_pc = "idle"
    /\ transaction_details = <<>>
    /\ supplier_orders_zf = <<>>
    /\ sales_patterns \in SalesPatternTables
    /\ supplier_patterns \in SupplierPatternTables
    /\ inventory_status \in StockTables
    /\ supplier_matches \in MatcherTables

daily_call(target_date) ==
    /\ daily_pc = "idle"
    /\ final_recommendations' =
           generate_daily_recommendations(target_date, sales_patterns, supplier_patterns,
                                          inventory_status, supplier_matches)
    /\ daily_pc' = "returned"
    /\ UNCHANGED <<inputs, tables, pc, run_locals, detector, n_updates, view,
                   supplier_order_patterns, sales_patterns, supplier_patterns,
                   inventory_status, supplier_matches, transaction_details,
                   supplier_orders_zf, schedule, product_matcher, find_result>>

NextDaily == \E target_date \in TargetDates : daily_call(target_date)

SpecDaily == InitDaily /\ [][NextDaily]_vars

(***************************************************************************)
(* The daily engine from its files: the constructor loads the patterns     *)
(* (_load_patterns), then the callers ask for a day or for the 14-day      *)
(* schedule.                                                               *)
(***************************************************************************)
\* OrderRecommendationEngine(): _load_sales_patterns, _load_supplier_patterns
\* and _load_inventory_status over the two files and the inventory table;
\* the product matcher is built first (ProductMatcher()), its two sets
\* iterated in some order.  supplier_matches is what the matcher answers for
\* the products with a sales pattern over the invoice table, which no caller
\* of the engine changes.
load_patterns(inventory_df, readable) ==
    /\ daily_pc = "new"
    /\ sales_patterns' = load_sales_patterns(transaction_details)
    /\ supplier_patterns' = load_supplier_patterns(supplier_orders_zf)
    /\ inventory_status' = load_inventory_status(inventory_df, <<>>)
    /\ \E pos_products \in orders_of(pos_products_of(transaction_details)),
          invoice_products \in orders_of(invoice_products_of(invoice_table)) :
           product_matcher' =
               Some(load_product_mappings(readable, pos_products, invoice_products))
    /\ supplier_matches' = matcher_answers(product_matcher'.val, invoice_table, sales_patterns')
    /\ daily_pc' = "idle"
    /\ UNCHANGED <<inputs, tables, pc, run_locals, detector, n_updates, view,
                   supplier_order_patterns, final_recommendations, transaction_details,
                   supplier_orders_zf, schedule, find_result>>

\* A caller of the matcher asks for the supplier products of one POS name.
find_call(pos_product_name) ==
    /\ product_matcher.some
    /\ find_result' = Some([pos_product_name |-> pos_product_name,
                            returned |-> find_supplier_for_product(product_matcher.val,
                                             invoice_table, pos_product_name)])
    /\ UNCHANGED <<inputs, tables, pc, run_locals, detector, n_updates, view,
                   supplier_order_patterns, sales_patterns, supplier_patterns,
                   inventory_status, supplier_matches, final_recommendations, daily_pc,
                   transaction_details, supplier_orders_zf, schedule, product_matcher>>

schedule_call(first_date) ==
    /\ daily_pc = "idle"
    /\ schedule' = generate_14_day_schedule(first_date, sales_patterns, supplier_patterns,
                                            inventory_status, supplier_matches)
    /\ daily_pc' = "scheduled"
    /\ UNCHANGED <<inputs, tables, pc, run_locals, detector, n_updates, view,
                   supplier_order_patterns, sales_patterns, supplier_patterns,
                   inventory_status, supplier_matches, final_recommendations,
                   transaction_details, supplier_orders_zf, product_matcher, find_result>>

\* An invoice row of the daily engine's universe.
invoice_of(supplier_name, item_name) ==
    [supplier_name |-> supplier_name, item_name |-> item_name,
     carton_or_loose |-> "loose", items_per_carton |-> 0, unit_price |-> 0,
     unit_price_item |-> 1000, invoice_date |-> 1]

EngineInvoices ==
    << invoice_of("F&N Foods Pte Ltd", <<"COKE", "CAN", "320ML">>),
       invoice_of("Meiji", <<"Fresh", "Milk", "1L">>) >>

\* Before the constructor has run.
InitEngineFiles ==
    /\ demand_forecasts = SnapshotDemand
    /\ product_inventory_table = SnapshotCatalog
    /\ InitOutputs
    /\ daily_pc = "new"
    /\ sales_patterns = <<>>
    /\ supplier_patterns = <<>>
    /\ inventory_status = <<>>
    /\ supplier_matches = <<>>

InitEngineNew ==
    /\ InitEngineFiles
    /\ invoice_table = EngineInvoices

\* The rows of a sheet selling quantity of item on every day from first to last.
daily_rows(item, first, last, quantity) ==
    [i \in 1..(last - first + 1) |->
        [Date |-> first + (i - 1), item |-> item, quantity |-> quantity]]

\* The rows of a sheet selling 1, 2, 3, ... of item from first to last, or
\* the same quantities falling.
ramp_rows(item, first, last, rising) ==
    [i \in 1..(last - first + 1) |->
        [Date |-> first + (i - 1), item |-> item,
         quantity |-> IF rising THEN i ELSE (last - first + 2) - i]]

(***************************************************************************)
(* The supplier cadence: the engine over every small supplier_orders_zf    *)
(* file, around the two ends of the reliable window and the two steps of   *)
(* the delivery schedule, and its 14-day schedule.                         *)
(***************************************************************************)
OrderSuppliers == {"Meiji", "Dasoon"}

OrderDates == {-1, 0, 3, 4, 10, 12, 18, 211, 212}

OrderRows == {[Suppliers |-> supplier, Date |-> date] :
                 supplier \in OrderSuppliers, date \in OrderDates}

OrderFiles == SeqsUpTo(OrderRows, MaxOrders)

CadenceSheet ==
    daily_rows(<<"Milk", "1L">>, 80, 90, 1) \o daily_rows(<<"Maggi", "Noodles">>, 71, 90, 3)

CadenceMatcher == <<coke_from_fn, milk_from_meiji>>

ScheduleStarts == {0, 10, 205}

InitCadence ==
    /\ InitEngineNew
    /\ transaction_details = CadenceSheet
    /\ supplier_orders_zf \in OrderFiles

NextCadence ==
    \/ load_patterns(<<>>, TRUE)
    \/ \E first_date \in ScheduleStarts : schedule_call(first_date)

SpecCadence == InitCadence /\ [][NextCadence]_vars

(***************************************************************************)
(* The sales patterns: the engine over sheets that sell on every day of    *)
(* the window, on some of them, before it, and twice on one day.           *)
(***************************************************************************)
CokeSheets ==
    { <<>>,
      daily_rows(<<"Coke", "320ml">>, 0, 90, 1),
      daily_rows(<<"Coke", "320ml">>, 1, 90, 1),
      daily_rows(<<"Coke", "320ml">>, 0, 91, 1),
      daily_rows(<<"Coke", "320ml">>, 46, 90, 3) }

MilkSheets ==
    { <<>>,
      << [Date |-> 0, item |-> <<"Milk", "1L">>, quantity |-> 2] >>
          \o daily_rows(<<"Milk", "1L">>, 95, 104, 1),
      << [Date |-> 85, item |-> <<"Milk", "1L">>, quantity |-> 1],
         [Date |-> 85, item |-> <<"Milk", "1L">>, quantity |-> 2] >> }

MaggiSheets ==
    { <<>>,
      ramp_rows(<<"Maggi", "Noodles">>, 81, 90, TRUE),
      ramp_rows(<<"Maggi", "Noodles">>, 81, 90, FALSE) }

TransactionSheets ==
    {coke \o milk \o maggi : coke \in CokeSheets, milk \in MilkSheets, maggi \in MaggiSheets}

SalesOrderFiles ==
    { <<>>,
      << [Suppliers |-> "Meiji", Date |-> 3], [Suppliers |-> "Meiji", Date |-> 0] >>,
      << [Suppliers |-> "Dasoon", Date |-> 10], [Suppliers |-> "Meiji", Date |-> 3],
         [Suppliers |-> "Meiji", Date |-> 0], [Suppliers |-> "Dasoon", Date |-> 0] >> }

InitSales ==
    /\ InitEngineNew
    /\ transaction_details \in TransactionSheets
    /\ supplier_orders_zf \in SalesOrderFiles

SalesStock ==
    { <<>>, << [item_name |-> <<"COKE", "320ML">>, current_quantity |-> 10] >> }

NextSales ==
    \/ \E inventory_df \in SalesStock : load_patterns(inventory_df, TRUE)
    \/ \E target_date \in TargetDates : daily_call(target_date)

SpecSales == InitSales /\ [][NextSales]_vars

(***************************************************************************)
(* The product matcher over small invoice tables and sheets: names mapped  *)
(* by hand, names matched when the matcher is built, names matched on      *)
(* demand, and a matcher that could not read its tables.                   *)
(***************************************************************************)
MatchInvoiceRows ==
    { invoice_of("Meiji", <<"Fresh", "Milk", "1L">>),
      invoice_of("Meiji", <<"Meiji", "Milk", "1L">>),
      invoice_of("Dasoon", <<"UHT", "Milk", "1", "Litre">>),
      invoice_of("F&N Foods Pte Ltd", <<"COKE", "CAN", "320ML">>),
      invoice_of("Nestle", <<"Maggi", "Curry", "Noodles">>) }

MatchSheets ==
    { <<>>,
      daily_rows(<<"Milk", "1L">>, 90, 90, 1),
      daily_rows(<<"Maggi", "Noodles">>, 90, 90, 1),
      daily_rows(<<"Milk", "1L">>, 90, 90, 1) \o daily_rows(<<"Maggi", "Noodles">>, 90, 90, 1),
      daily_rows(<<"Coke", "320ml">>, 90, 90, 1) \o daily_rows(<<"Milk", "1L">>, 90, 90, 1) }

AskedNames == { <<"Coke", "320ml">>, <<"Milk", "1L">>, <<"Maggi", "Noodles">> }

InitMatch ==
    /\ InitEngineFiles
    /\ invoice_table \in SeqsUpTo(MatchInvoiceRows, MaxMatchInvoices)
    /\ transaction_details \in MatchSheets
    /\ supplier_orders_zf = <<>>

NextMatch ==
    \/ \E readable \in BOOLEAN : load_patterns(<<>>, readable)
    \/ \E pos_product_name \in AskedNames : find_call(pos_product_name)

SpecMatch == InitMatch /\ [][NextMatch]_vars

(***************************************************************************)
(* The detector on its own: refresh() called again and again on every      *)
(* small content of the catalog and the invoice table.                     *)
(***************************************************************************)
InitDet ==
    /\ demand_forecasts = SnapshotDemand
    /\ product_inventory_table \in CatalogTables
    /\ invoice_table \in InvoiceTables
    /\ InitOutputs
    /\ InitDailyEmpty

NextDet ==
    \/ refresh_clear_upto(MaxDetRefresh)
    \/ refresh_compare
    \/ refresh_save

SpecDet == InitDet /\ [][NextDet]_vars

(***************************************************************************)
(* The detector and the dashboard's review route: refreshes over an        *)
(* unchanged catalog and invoice table, and price changes marked reviewed  *)
(* at any moment.                                                          *)
(***************************************************************************)
\* api_mark_price_change_reviewed: UPDATE price_changes SET reviewed = 1
\* WHERE id = ?; commit.
api_mark_price_change_reviewed(change_id) ==
    /\ price_changes_table' =
           {IF row.id = change_id THEN [row EXCEPT !.reviewed = TRUE] ELSE row :
               row \in price_changes_table}
    /\ UNCHANGED <<inputs, daily, supplier_order_patterns, order_recommendations, next_rec_id,
                   next_pc_id, pc, run_locals, detector, n_updates, view>>

NextReview ==
    \/ refresh_clear_upto(MaxDetRefresh)
    \/ refresh_compare
    \/ refresh_save
    \/ \E change_id \in 1..MaxChangeId : api_mark_price_change_reviewed(change_id)

SpecReview == InitDet /\ [][NextReview]_vars

(***************************************************************************)
(* The planner and the detector over one snapshot: one generate of the     *)
(* planner and one refresh of the detector, in any order, over tables      *)
(* where two suppliers may have invoiced the same item.                    *)
(***************************************************************************)
BothInvoiceRows ==
    InvoiceRows \cup
    { [supplier_name |-> "BETA", item_name |-> <<"tea", "bag">>, carton_or_loose |-> "loose",
       items_per_carton |-> 0, unit_price |-> 0, unit_price_item |-> 5000,
       invoice_date |-> 5] }

BothInvoiceTables ==
    {s \in SeqsUpTo(BothInvoiceRows, MaxInvoices) :
        /\ distinct_rows(s)
        /\ \A i, j \in DOMAIN s : i < j => s[i].invoice_date >= s[j].invoice_date}

InitBoth ==
    /\ demand_forecasts \in DemandTables
    /\ product_inventory_table \in CatalogTables
    /\ invoice_table \in BothInvoiceTables
    /\ InitOutputs
    /\ InitDailyEmpty

NextBoth ==
    \/ \E supplier_order \in SupplierOrders :
           plan_call(1, [year |-> 2025, month |-> 2], supplier_order)
    \/ refresh_clear
    \/ refresh_compare
    \/ refresh_save

SpecBoth == InitBoth /\ [][NextBoth]_vars

(***************************************************************************)
(* The two price comparisons as functions: the planner and the detector    *)
(* on one forecast item, one catalog cost and one invoice line, over the   *)
(* prices around the tolerance.                                            *)
(***************************************************************************)
PriceCosts == {1000, 2000, 3000, 5000}

PriceInvoiceRows ==
    { [supplier_name |-> "ACME", item_name |-> <<"tea", "bag">>, carton_or_loose |-> "loose",
       items_per_carton |-> 0, unit_price |-> 0, unit_price_item |-> price,
       invoice_date |-> 1] : price \in {1100, 2200, 3300, 5500, 5510} }
    \cup
    { [supplier_name |-> "ACME", item_name |-> <<"tea", "bag">>, carton_or_loose |-> "Pack",
       items_per_carton |-> 12, unit_price |-> 12 * price, unit_price_item |-> price,
       invoice_date |-> 1] : price \in {1100, 5500} }

InitPrice ==
    /\ demand_forecasts = << [item_name |-> <<"tea", "bag">>, category |-> "Beverages",
                              barcode |-> 0, weekly_demand_qty |-> 255,
                              weekly_demand_value_sgd |-> 25] >>
    /\ \E cost \in PriceCosts :
           product_inventory_table = << [product_name |-> <<"tea", "bag">>, unit_cost |-> cost,
                                         cost_parses |-> TRUE, barcode |-> 0] >>
    /\ \E row \in PriceInvoiceRows : invoice_table = <<row>>
    /\ InitOutputs
    /\ InitDailyEmpty

NextPrice ==
    \/ \E r \in Runs, date \in Months, supplier_order \in SupplierOrders :
           plan_call(r, date, supplier_order)
    \/ refresh_clear
    \/ refresh_compare
    \/ refresh_save

SpecPrice == InitPrice /\ [][NextPrice]_vars

(***************************************************************************)
(* Properties of the plan generate_monthly_recommendations returns.        *)
(***************************************************************************)
returned(r) == pc[r] = "returned"

\* order['cost'] of the supplier's order, as the selection loop compares it.
order_cost_of(r, supplier) ==
    LET orders == supplier_orders_of(items_with_costs[r])
    IN  orders[CHOOSE i \in DOMAIN orders : orders[i].supplier = supplier].cost

RECURSIVE week_cost(_, _, _)
week_cost(r, recs, week_num) ==
    IF recs = <<>> THEN 0
    ELSE (IF Head(recs).week_number = week_num
          THEN order_cost_of(r, Head(recs).supplier_name) ELSE 0)
         + week_cost(r, Tail(recs), week_num)

weeks_of_run(r) == month_weeks(start_date[r])

\* C1: in every week of a returned plan, the costs of the supplier orders
\* admitted into the week sum to at most weekly_budget.
C1_WeeklyBudget ==
    \A r \in Runs : returned(r) =>
        \A w \in DOMAIN weeks_of_run(r) :
            week_cost(r, recommendations[r], w) <= weekly_budget_of(weeks_of_run(r))

\* C1 witness: a plan where the budget decided: an order was admitted and
\* another order, large enough to be placed, was left out.
C1_Witness ==
    /\ returned(1)
    /\ recommendations[1] # <<>>
    /\ LET orders == supplier_orders_of(items_with_costs[1])
       IN  \E i \in DOMAIN orders :
               /\ orders[i].cost >= min_order_value
               /\ \A j \in DOMAIN recommendations[1] :
                      recommendations[1][j].supplier_name # orders[i].supplier

\* C2: in a returned plan no two orders share supplier and week.
C2_OneOrderPerSupplierPerWeek ==
    \A r \in Runs : returned(r) =>
        \A i, j \in DOMAIN recommendations[r] :
            (/\ i # j
             /\ recommendations[r][i].supplier_name = recommendations[r][j].supplier_name)
            => recommendations[r][i].recommended_date # recommendations[r][j].recommended_date

\* C2 witness: an order that combines two items of one supplier.
C2_Witness ==
    /\ returned(1)
    /\ \E i \in DOMAIN recommendations[1] : Len(recommendations[1][i].items) >= 2

\* The demand rows the planner reads, and the outcome of the two lookups.
planned_items == get_all_items_with_demand(demand_forecasts)

cost_lookup(item) ==
    find_unit_cost(item.item_name, item.barcode,
                   get_product_inventory_costs(product_inventory_table))

has_supplier(item) ==
    \E supplier_order \in SupplierOrders :
        find_supplier_for_item(item.item_name,
            get_supplier_item_mapping(invoice_table, supplier_order)).some

catalog_costs ==
    {product_inventory_table[i].unit_cost :
        i \in {j \in DOMAIN product_inventory_table : product_inventory_table[j].cost_parses}}

\* C10: every line of a returned plan is the line of a demand item whose cost
\* lookup succeeded and that has a supplier, and carries that looked-up cost,
\* which is the unit cost of a catalog record (rounded to cents).
C10_NoUnmatchedItemInPlan ==
    \A r \in Runs : returned(r) =>
        \A i \in DOMAIN recommendations[r] :
            \A j \in DOMAIN recommendations[r][i].items :
                LET line == recommendations[r][i].items[j]
                IN  \E k \in DOMAIN planned_items :
                        /\ planned_items[k].item_name = line.item_name
                        /\ cost_lookup(planned_items[k]).some
                        /\ has_supplier(planned_items[k])
                        /\ line.unit_cost = round2(cost_lookup(planned_items[k]).val)
                        /\ cost_lookup(planned_items[k]).val \in catalog_costs

\* C10 witness: a non-empty plan made while an item had no cost.
C10_Witness ==
    /\ returned(1)
    /\ recommendations[1] # <<>>
    /\ \E k \in DOMAIN planned_items : ~cost_lookup(planned_items[k]).some

(***************************************************************************)
(* Properties of the order_recommendations and price_changes tables.       *)
(***************************************************************************)
\* A step of run r: its position in run() moves.
run_step(r) == pc'[r] # pc[r]

row_month(row) == [year |-> row.recommended_date.year, month |-> row.recommended_date.month]

\* C3: the order_recommendations table never holds two rows with the same
\* supplier_name and the same recommended_date.
C3_NoDuplicateSupplierWeek ==
    \A a, b \in order_recommendations :
        (a.supplier_name = b.supplier_name /\ a.recommended_date = b.recommended_date)
        => a.id = b.id

\* C4: no step of a planner run removes or changes a row whose status is
\* ordered or delivered.
C4_RunKeepsOrderedRows ==
    [][\A r \in Runs : run_step(r) =>
          \A row \in order_recommendations :
              row.status # "pending" => row \in order_recommendations']_vars

\* C4 witness: a run that deleted pending rows has returned, and a row that
\* was ordered or delivered when it started is still in the table.
C4_Witness ==
    \E r \in Runs :
        /\ pc[r] = "done"
        /\ deleted[r] > 0
        /\ \E row \in committed_at_start[r].order_recommendations :
               /\ row.status \in {"ordered", "delivered"}
               /\ row \in order_recommendations

\* C5 as stated: a step of a run for month M leaves in place every pending
\* row whose week lies in a month other than M.
C5_OtherMonthsPendingKept ==
    [][\A r \in Runs : run_step(r) =>
          \A row \in pending_rows(order_recommendations) :
              row_month(row) # start_date'[r] => row \in order_recommendations']_vars

\* C5: the clearing step of a run deletes every pending row, of whatever
\* month, and nothing else; the saving step only adds rows, each pending and
\* of the run's target month; no other step of a run changes the table.
C5_AllPendingReplaced ==
    [][\A r \in Runs : run_step(r) =>
          IF pc[r] = "clear" /\ pc'[r] = "generate"
          THEN order_recommendations' =
                   {row \in order_recommendations : row.status # "pending"}
          ELSE IF pc[r] = "save" /\ pc'[r] = "save_price_changes"
          THEN /\ order_recommendations \subseteq order_recommendations'
               /\ Cardinality(order_recommendations' \ order_recommendations)
                      = Len(recommendations[r])
               /\ \A row \in order_recommendations' \ order_recommendations :
                      row.status = "pending" /\ row_month(row) = start_date[r]
          ELSE order_recommendations' = order_recommendations]_vars

\* C5 witness: a run for month M has saved its plan, and a pending row of
\* another month that was in the table when it started is gone.
C5_Witness ==
    \E r \in Runs :
        /\ pc[r] \in {"save_price_changes", "done"}
        /\ recommendations[r] # <<>>
        /\ \E row \in pending_rows(committed_at_start[r].order_recommendations) :
               /\ row_month(row) # start_date[r]
               /\ row \notin order_recommendations

\* The old rows are deleted and the new rows, already computed, are not yet
\* inserted: of a planner run, of a detector refresh.
run_mid_replace ==
    \E r \in Runs : pc[r] = "save" /\ deleted[r] > 0 /\ recommendations[r] # <<>>

refresh_mid_replace ==
    det_pc = "save" /\ det_at_start # {} /\ det_price_changes # <<>>

\* C6: no dashboard read is served from a state between the delete and the
\* insert of a planner run or of a detector refresh.
C6_ReaderSeesNoIntermediateState ==
    [][dashboard_read => ~(run_mid_replace \/ refresh_mid_replace)]_vars

\* C7: when a run or a refresh fails, both output tables hold exactly the
\* rows they held when it started.
C7_FailedRunLeavesOutputs ==
    [][/\ \A r \in Runs : (pc[r] # "failed" /\ pc'[r] = "failed")
              => committed' = committed_at_start'[r]
       /\ (det_pc # "failed" /\ det_pc' = "failed")
              => price_changes_table' = det_at_start']_vars

\* A target month that is given and is not YYYY-MM with a month in 1..12.
invalid_month(tm) ==
    /\ tm # not_given
    /\ \/ Len(tm) # 2
       \/ \E i \in DOMAIN tm : tm[i] = -1
       \/ tm[2] \notin 1..12

zero_suppliers ==
    \A supplier_order \in SupplierOrders :
        get_supplier_item_mapping(invoice_table, supplier_order) = <<>>

\* C9: with zero suppliers no step of a run changes order_recommendations.
C9_ZeroSuppliersAborts ==
    [][\A r \in Runs : (run_step(r) /\ zero_suppliers)
          => order_recommendations' = order_recommendations]_vars

(***************************************************************************)
(* Properties of the lines of a plan.                                      *)
(***************************************************************************)
\* The whole numbers nearest to a quantity given in tenths.
nearest_units(tenths) ==
    {n \in 0..(tenths \div 10 + 1) :
        (IF 10 * n >= tenths THEN 10 * n - tenths ELSE tenths - 10 * n) <= 5}

\* required_pieces: the weekly demand rounded to a whole unit, at least 1.
required_pieces(tenths) == {Max(1, n) : n \in nearest_units(tenths)}

plan_lines(r) ==
    UNION {{recommendations[r][i].items[j] : j \in DOMAIN recommendations[r][i].items} :
              i \in DOMAIN recommendations[r]}

\* C11: the carton count of every carton line of a returned plan is the
\* least whole number of cartons that holds the required pieces of its item.
C11_CartonsAreCeiling ==
    \A r \in Runs : returned(r) =>
        \A line \in plan_lines(r) : line.order_unit = "carton" =>
            \E k \in DOMAIN planned_items :
                /\ planned_items[k].item_name = line.item_name
                /\ line.cartons \in Nat
                /\ \E q \in required_pieces(planned_items[k].weekly_demand_qty) :
                       /\ line.cartons * line.items_per_carton >= q
                       /\ (line.cartons - 1) * line.items_per_carton < q

\* C11 witness: a carton line of several cartons, the last one not full.
C11_Witness ==
    /\ returned(1)
    /\ \E line \in plan_lines(1) :
           /\ line.order_unit = "carton"
           /\ line.cartons >= 2
           /\ \E k \in DOMAIN planned_items :
                  /\ planned_items[k].item_name = line.item_name
                  /\ \A q \in required_pieces(planned_items[k].weekly_demand_qty) :
                         line.cartons * line.items_per_carton > q

(***************************************************************************)
(* Properties of the daily engine's recommendations.                       *)
(***************************************************************************)
\* Every product recommendation of the list generate_daily_recommendations
\* returned.
emitted_products ==
    UNION {{final_recommendations[i].products[j] :
                j \in DOMAIN final_recommendations[i].products} :
           i \in DOMAIN final_recommendations}

\* The path that built a recommendation, read off its supplier_product_name.
from_direct_path(p) == p.supplier_product_name.prefix = ""

\* C12: every product recommendation the engine emits, whichever of the
\* three paths built it, has a recommended_quantity that is at least 0 and,
\* when positive, at least 5.
C12_QuantityFloor ==
    \A p \in emitted_products :
        /\ p.recommended_quantity >= 0
        /\ p.recommended_quantity > 0 => p.recommended_quantity >= 5

\* C13: every emitted recommendation whose current_stock is 0 or less has
\* urgency critical, whichever path of the engine built it.
C13_NoStockIsCritical ==
    \A p \in emitted_products : p.current_stock <= 0 => p.urgency = "critical"

\* The product of the worked example: 3 a day, sold on half of the 90 days,
\* increasing, ordered from a supplier whose lead time and the 3 safety days
\* make a horizon of 7 days, with 10 in stock.
worked_example(p) ==
    /\ from_direct_path(p)
    /\ has_pattern(sales_patterns, p.product_name)
    /\ LET pattern == pattern_of(sales_patterns, p.product_name)
       IN  /\ pattern.avg_daily_sales = 30
           /\ pattern.trend = "increasing"
           /\ 2 * pattern.days_with_sales = 90
    /\ supplier_pattern_of(supplier_patterns, p.supplier_name).recommended_buffer_days + 3 = 7
    /\ p.current_stock = 10

\* C20: the recommendation of the worked example has predicted need 25.2,
\* recommended_quantity 16 and urgency medium.
C20_WorkedExample ==
    \A p \in emitted_products :
        worked_example(p) => /\ p.predicted_demand = 252
                             /\ p.recommended_quantity = 16
                             /\ p.urgency = "medium"

(***************************************************************************)
(* Properties of the price_changes table.                                  *)
(***************************************************************************)
\* The PriceChangeRecord of a row: the row without its id and its flags.
price_record(row) ==
    [item_name |-> row.item_name, supplier |-> row.supplier,
     inventory_price |-> row.inventory_price, invoice_price |-> row.invoice_price,
     percentage_hike |-> row.percentage_hike]

price_records(table) == {price_record(row) : row \in table}

\* The step that ends a refresh(), by returning or by raising.
refresh_ends == det_pc \in {"compare", "save"} /\ det_pc' \in {"idle", "failed"}

\* C14: a refresh() that follows another on unchanged invoice_table and
\* product_inventory_table leaves the PriceChangeRecord rows (item_name,
\* supplier, inventory_price, invoice_price, percentage_hike) the first one
\* left.
C14_RefreshIdempotent ==
    [][(refresh_ends /\ n_refresh >= 2)
           => price_records(price_changes_table') = price_records(det_at_start)]_vars

C14_Witness ==
    /\ n_refresh = 2
    /\ det_pc = "idle"
    /\ price_changes_table # {}
    /\ price_records(price_changes_table) = price_records(det_at_start)

\* The rows of the table as SQLite tells them apart: the UNIQUE constraint
\* compares item_name as stored, and this always holds.
unique_price_change_key ==
    \A row, other \in price_changes_table : same_price_change(row, other) => row = other

\* Two rows tell of the same hike: the same item under its normalized name,
\* the same supplier and the same two prices.
same_hike(row, other) ==
    /\ name_key(row.item_name) = name_key(other.item_name)
    /\ row.supplier = other.supplier
    /\ row.inventory_price = other.inventory_price
    /\ row.invoice_price = other.invoice_price

\* C15: whatever planner runs and detector refreshes have happened, the
\* price_changes table holds no two rows for the same item, supplier,
\* inventory_price and invoice_price: detecting a hike that is already
\* stored adds no row.
C15_NoDuplicateHike ==
    \A row, other \in price_changes_table : same_hike(row, other) => row = other

\* The per-item price of an invoice line as a fraction, and whether it is
\* more than 10% above a cost, in exact arithmetic.
line_price(row) ==
    LET per_carton == /\ lower_token(row.carton_or_loose) \in carton_words
                      /\ row.items_per_carton > 1
    IN  [num |-> IF per_carton /\ row.unit_price > 0 THEN row.unit_price
                 ELSE row.unit_price_item,
         den |-> IF per_carton THEN row.items_per_carton ELSE 1]

strictly_above_tolerance(cost, row) ==
    100 * line_price(row).num > (100 + price_tolerance_pct) * cost * line_price(row).den

\* C16: with the one invoice line and the one catalog cost of the item, the
\* planner's compare_prices and the detector's compare_prices each emit a
\* PriceChangeRecord exactly when the per-item invoice price is more than
\* 10% above the cost; a price exactly 10% above the cost is not flagged.
C16_FlaggedIffAboveTolerance ==
    LET above == strictly_above_tolerance(product_inventory_table[1].unit_cost,
                                          invoice_table[1])
    IN  /\ \A r \in Runs : returned(r) => (price_changes[r] # <<>> <=> above)
        /\ det_pc = "save" => (det_price_changes # <<>> <=> above)

\* A price change pairs an invoice line and a catalog record of the same
\* normalized name: the name it is stored under is that name and its
\* inventory_price is that record's cost.
exact_pair(change) ==
    \E i \in DOMAIN invoice_table, j \in DOMAIN product_inventory_table :
        /\ name_key(invoice_table[i].item_name) = name_key(change.item_name)
        /\ name_key(product_inventory_table[j].product_name) = name_key(change.item_name)
        /\ product_inventory_table[j].cost_parses
        /\ round2(product_inventory_table[j].unit_cost) = change.inventory_price

\* C17: every PriceChangeRecord of the planner and of the detector compares
\* an invoice line with a catalog cost record whose normalized names are
\* equal; none comes from a fuzzy or any other non-exact match.
C17_ExactNamesOnly ==
    /\ \A r \in Runs : returned(r) =>
           \A k \in DOMAIN price_changes[r] : exact_pair(price_changes[r][k])
    /\ \A k \in DOMAIN det_price_changes : exact_pair(det_price_changes[k])

\* The detector's half of C17, which holds.
detector_pairs_exact == \A k \in DOMAIN det_price_changes : exact_pair(det_price_changes[k])

(***************************************************************************)
(* Properties of the status of an order.                                   *)
(***************************************************************************)
\* The moves of the lifecycle pending -> ordered -> delivered.
forward_moves == { <<"pending", "ordered">>, <<"ordered", "delivered">> }

\* C18: a row of order_recommendations is created with status pending, and
\* a step that changes the status of a row moves it one step forward along
\* pending -> ordered -> delivered: never back, never from pending straight
\* to delivered.
C18_StatusMovesForward ==
    [][\A new \in order_recommendations' :
           IF \E row \in order_recommendations : row.id = new.id
           THEN \A row \in order_recommendations :
                    (row.id = new.id /\ row.status # new.status)
                        => <<row.status, new.status>> \in forward_moves
           ELSE new.status = "pending"]_vars

\* C19: a status update that moves an order to ordered or to delivered sets
\* last_order_date of the supplier_order_patterns row of the order's
\* supplier in the same step, and a status update to pending leaves
\* supplier_order_patterns alone.
C19_StatusUpdateStamps ==
    [][n_updates' # n_updates =>
           \A row \in order_recommendations, new \in order_recommendations' :
               (row.id = new.id /\ row.status # new.status) =>
                   IF new.status \in {"ordered", "delivered"}
                   THEN /\ row.supplier_name \in DOMAIN supplier_order_patterns'
                        /\ supplier_order_patterns'[row.supplier_name] = current_date
                   ELSE UNCHANGED supplier_order_patterns]_vars

\* What holds of the stamp: it is set by the update to delivered, and by no
\* other status update.
stamp_on_delivered_only ==
    [][n_updates' # n_updates =>
           \A row \in order_recommendations, new \in order_recommendations' :
               (row.id = new.id /\ row.status # new.status) =>
                   IF new.status = "delivered"
                   THEN supplier_order_patterns'[row.supplier_name] = current_date
                   ELSE UNCHANGED supplier_order_patterns]_vars

(***************************************************************************)
(* The supplier cadence (_load_supplier_patterns).                         *)
(***************************************************************************)
engine_loaded == daily_pc # "new"

\* The dates of the supplier's orders of the file that lie in the reliable window.
orders_in_window(supplier) ==
    {i \in DOMAIN supplier_orders_zf :
        /\ supplier_orders_zf[i].Suppliers = supplier
        /\ supplier_orders_zf[i].Date >= reliable_start
        /\ supplier_orders_zf[i].Date <= reliable_end}

first_order(supplier) ==
    CHOOSE d \in {supplier_orders_zf[i].Date : i \in orders_in_window(supplier)} :
        \A i \in orders_in_window(supplier) : d <= supplier_orders_zf[i].Date

last_order(supplier) ==
    CHOOSE d \in {supplier_orders_zf[i].Date : i \in orders_in_window(supplier)} :
        \A i \in orders_in_window(supplier) : supplier_orders_zf[i].Date <= d

\* The n orders of a supplier leave n - 1 gaps between consecutive orders,
\* which add up to the days from the first order to the last.
gaps(supplier) == Cardinality(orders_in_window(supplier)) - 1

span(supplier) == last_order(supplier) - first_order(supplier)

cadence_step(supplier) ==
    IF span(supplier) <= 4 * gaps(supplier) THEN <<"high", 2>>
    ELSE IF span(supplier) <= 7 * gaps(supplier) THEN <<"medium", 4>>
    ELSE <<"low", 7>>

has_cadence(supplier) == in_supplier_patterns(supplier_patterns, supplier)

cadence(supplier) == supplier_pattern_of(supplier_patterns, supplier)

\* C21: every supplier with at least 2 orders in the reliable window has
\* avg_days_between_orders = the mean gap between chronologically
\* consecutive orders, and (delivery_frequency, recommended_buffer_days) =
\* (high, 2) when the mean is at most 4, (medium, 4) when it is at most 7,
\* (low, 7) otherwise; recommended_buffer_days never decreases as
\* avg_days_between_orders grows; orders on day 0 and day 10 give 10, low,
\* 7; a supplier with fewer than 2 orders has no cadence.
C21_CadenceStepFunction ==
    engine_loaded =>
        /\ \A supplier \in OrderSuppliers :
               IF Cardinality(orders_in_window(supplier)) < 2 THEN ~has_cadence(supplier)
               ELSE /\ has_cadence(supplier)
                    /\ LET avg == cadence(supplier).avg_days_between_orders
                       IN  /\ avg.den > 0
                           /\ avg.num * gaps(supplier) = span(supplier) * avg.den
                    /\ <<cadence(supplier).delivery_frequency,
                         cadence(supplier).recommended_buffer_days>> = cadence_step(supplier)
                    /\ ({supplier_orders_zf[i].Date : i \in orders_in_window(supplier)} = {0, 10}
                        /\ gaps(supplier) = 1)
                       => /\ cadence(supplier).avg_days_between_orders = [num |-> 10, den |-> 1]
                          /\ cadence(supplier).delivery_frequency = "low"
                          /\ cadence(supplier).recommended_buffer_days = 7
        /\ \A one, other \in OrderSuppliers :
               (has_cadence(one) /\ has_cadence(other)
                /\ cadence(one).avg_days_between_orders.num
                       * cadence(other).avg_days_between_orders.den
                   <= cadence(other).avg_days_between_orders.num
                          * cadence(one).avg_days_between_orders.den)
               => cadence(one).recommended_buffer_days <= cadence(other).recommended_buffer_days

\* Loaded from a file listing the latest order first: Meiji ordered on day 10
\* and on day 0 and has the cadence 10, low, 7; Dasoon ordered once in the
\* window and has none.
C21_Witness ==
    /\ engine_loaded
    /\ supplier_orders_zf # <<>>
    /\ supplier_orders_zf[1] = [Suppliers |-> "Meiji", Date |-> 10]
    /\ {supplier_orders_zf[i].Date : i \in orders_in_window("Meiji")} = {0, 10}
    /\ Cardinality(orders_in_window("Dasoon")) = 1
    /\ has_cadence("Meiji")
    /\ cadence("Meiji").avg_days_between_orders = [num |-> 10, den |-> 1]
    /\ cadence("Meiji").recommended_buffer_days = 7
    /\ ~has_cadence("Dasoon")

(***************************************************************************)
(* The scheduling rule (_should_order_today, generate_14_day_schedule).    *)
(***************************************************************************)
\* The days a caller asks about: from the start of the reliable window past
\* its end.
AskedDates == (0..40) \cup (200..225)

\* (target_date - last_order_date).days >= avg_days_between_orders, from the
\* orders of the file.
due(supplier, target_date) ==
    /\ Cardinality(orders_in_window(supplier)) >= 2
    /\ (target_date - last_order(supplier)) * gaps(supplier) >= span(supplier)

listed(day, supplier) ==
    \E i \in DOMAIN schedule[day].recommendations :
        schedule[day].recommendations[i].supplier_name = supplier

\* C22: a supplier should order on target_date exactly when it has a
\* cadence and (target_date - last_order_date).days >=
\* avg_days_between_orders; with the patterns unchanged a supplier due on one
\* day is due on the next; every supplier listed on a day of the 14-day
\* schedule satisfies the rule on that day.
C22_ScheduledWhenDue ==
    engine_loaded =>
        /\ \A supplier \in OrderSuppliers, target_date \in AskedDates :
               /\ should_order_today(supplier_patterns, supplier, target_date)
                      <=> due(supplier, target_date)
               /\ should_order_today(supplier_patterns, supplier, target_date)
                      => should_order_today(supplier_patterns, supplier, target_date + 1)
        /\ daily_pc = "scheduled" =>
               /\ Len(schedule) = schedule_days
               /\ \A day \in DOMAIN schedule, supplier \in OrderSuppliers :
                      listed(day, supplier) => due(supplier, schedule[day].date)

\* A schedule whose first day leaves a supplier out and a later day lists it,
\* on the very day the average gap has passed since its last order.
C22_Witness ==
    /\ daily_pc = "scheduled"
    /\ \E supplier \in OrderSuppliers, day \in DOMAIN schedule :
           /\ ~listed(1, supplier)
           /\ listed(day, supplier)
           /\ span(supplier) > 0
           /\ (schedule[day].date - last_order(supplier)) * gaps(supplier) = span(supplier)

(***************************************************************************)
(* The inputs of the weekly planner (get_all_items_with_demand).           *)
(***************************************************************************)
\* The forecast rows of a name that sell nothing in a week.
zero_demand(item_name) ==
    {k \in DOMAIN demand_forecasts :
        /\ demand_forecasts[k].item_name = item_name
        /\ \/ demand_forecasts[k].weekly_demand_value_sgd = 0
           \/ demand_forecasts[k].weekly_demand_qty = 0}

\* C23: only products with a non-zero weekly demand are inputs of the weekly
\* planner: no line of a returned plan is of a product whose weekly demand
\* quantity or value is zero.
C23_NoZeroDemandLine ==
    \A r \in Runs : returned(r) =>
        \A line \in plan_lines(r) : zero_demand(line.item_name) = {}

\* What the code keeps: every line of a returned plan is of a forecast row
\* outside the excluded categories, and orders at least one piece or carton.
lines_from_forecast ==
    \A r \in Runs : returned(r) =>
        \A line \in plan_lines(r) :
            /\ \E k \in DOMAIN demand_forecasts :
                   /\ demand_forecasts[k].item_name = line.item_name
                   /\ demand_forecasts[k].category \notin excluded_categories
            /\ IF line.order_unit = "carton" THEN line.cartons >= 1 ELSE line.quantity >= 1

(***************************************************************************)
(* The greedy selection of a week (_generate_week_recommendations_with_    *)
(* budget).                                                                *)
(***************************************************************************)
\* The supplier orders of a run, one per supplier of its matched items.
run_orders(r) == supplier_orders_of(items_with_costs[r])

\* The recommendations of one week of a returned plan, in the order admitted.
week_recs(r, week_num) ==
    SelectSeq(recommendations[r], LAMBDA rec : rec.week_number = week_num)

admitted_in(r, week_num, supplier) ==
    \E i \in DOMAIN week_recs(r, week_num) : week_recs(r, week_num)[i].supplier_name = supplier

\* Order i is considered before order j: it costs more, or as much and its
\* supplier was met first.
considered_before(orders, i, j) ==
    \/ orders[i].cost > orders[j].cost
    \/ orders[i].cost = orders[j].cost /\ i < j

\* The cost admitted into the week at the moment order j is considered.
running_total(r, week_num, j) ==
    LET orders == run_orders(r)
    IN  sum_of([i \in DOMAIN orders |->
                   IF considered_before(orders, i, j)
                      /\ admitted_in(r, week_num, orders[i].supplier)
                   THEN orders[i].cost ELSE 0])

\* The names of the matched items of a supplier, in the order matched.
matched_names(r, supplier) ==
    LET own == SelectSeq(items_with_costs[r], LAMBDA item : item.supplier = supplier)
    IN  [k \in DOMAIN own |-> own[k].item_name]

\* C24: within a week the supplier orders are considered in descending order
\* of total cost, an order is admitted if and only if its cost is at least
\* the minimum order value and running_total + cost <= weekly_budget at the
\* moment it is considered, and an admitted order holds all the matched items
\* of its supplier.
C24_GreedySelection ==
    \A r \in Runs : returned(r) =>
        \A w \in DOMAIN weeks_of_run(r) :
            LET orders == run_orders(r)
                recs == week_recs(r, w)
                weekly_budget == weekly_budget_of(weeks_of_run(r))
            IN  /\ \A i, j \in DOMAIN recs :
                       i < j => recs[i].total_amount_sgd >= recs[j].total_amount_sgd
                /\ \A i \in DOMAIN recs : \E j \in DOMAIN orders :
                       orders[j].supplier = recs[i].supplier_name
                /\ \A j \in DOMAIN orders :
                       /\ admitted_in(r, w, orders[j].supplier)
                            <=> /\ orders[j].cost >= min_order_value
                                /\ running_total(r, w, j) + orders[j].cost <= weekly_budget
                       /\ \A i \in DOMAIN recs :
                              recs[i].supplier_name = orders[j].supplier =>
                                  [k \in DOMAIN recs[i].items |-> recs[i].items[k].item_name]
                                      = matched_names(r, orders[j].supplier)

\* A week where the dearer of two orders was admitted first and the cheaper,
\* which alone is within the weekly budget and above the minimum, was left
\* out for the running total; the admitted order holds its one supplier's
\* items.
C24_Witness ==
    \E r \in Runs :
        /\ returned(r)
        /\ \E i, j \in DOMAIN run_orders(r) :
               /\ run_orders(r)[i].cost > run_orders(r)[j].cost
               /\ admitted_in(r, 1, run_orders(r)[i].supplier)
               /\ ~admitted_in(r, 1, run_orders(r)[j].supplier)
               /\ run_orders(r)[j].cost >= min_order_value
               /\ run_orders(r)[j].cost <= weekly_budget_of(weeks_of_run(r))

(***************************************************************************)
(* The month partition (generate_monthly_recommendations, lines 381-407).  *)
(***************************************************************************)
\* The weeks partition a month of last_day days.
partitions_month(weeks, last_day) ==
    /\ Len(weeks) \in {4, 5}
    /\ weeks[1].start_date = 1
    /\ weeks[Len(weeks)].end_date = last_day
    /\ \A i \in DOMAIN weeks :
           /\ weeks[i].week_num = i
           /\ i < Len(weeks) => /\ weeks[i].end_date - weeks[i].start_date + 1 = 7
                                /\ weeks[i + 1].start_date = weeks[i].end_date + 1
           /\ weeks[i].end_date - weeks[i].start_date + 1 \in 1..7

\* The last day of a calendar month.
last_day_of(date) ==
    IF date.month = 2
    THEN (IF date.year % 4 = 0 /\ (date.year % 100 # 0 \/ date.year % 400 = 0) THEN 29 ELSE 28)
    ELSE IF date.month \in {4, 6, 9, 11} THEN 30 ELSE 31

\* The weeks of a returned plan are the month's, each recommendation lies
\* in one of them, and the weekly budget is the monthly budget over their
\* number.
weeks_partition(r) ==
    LET weeks == weeks_of_run(r)
    IN  /\ partitions_month(weeks, last_day_of(start_date[r]))
        /\ weekly_budget_of(weeks) * Len(weeks) = monthly_budget
        /\ \A i \in DOMAIN recommendations[r] :
               LET rec == recommendations[r][i]
               IN  /\ rec.week_number \in DOMAIN weeks
                   /\ rec.recommended_date.day = weeks[rec.week_number].start_date
                   /\ rec.week_end = weeks[rec.week_number].end_date

\* C25: for every valid target month the computed weeks partition the month:
\* week 1 starts on day 1, each next week starts the day after the previous
\* one ends, every week but the last spans 7 days, the last ends on the last
\* day of the month and spans 1 to 7 days, there are 4 or 5 weeks, and
\* weekly_budget = monthly_budget / number of weeks.
C25_WeeksPartitionMonth ==
    \A r \in Runs : pc[r] # "idle" => returned(r) /\ weeks_partition(r)

\* What the code keeps: every plan that is returned has the partition, and
\* the only month of the model without a plan is December 9999.
weeks_partition_when_returned ==
    \A r \in Runs :
        /\ returned(r) => weeks_partition(r)
        /\ pc[r] = "failed" => start_date[r] = [year |-> 9999, month |-> 12]

(***************************************************************************)
(* The sales frequency (_load_sales_patterns).                             *)
(***************************************************************************)
\* The first day of the window: 90 days before the latest record.
window_start ==
    LET dates == {transaction_details[i].Date : i \in DOMAIN transaction_details}
    IN  (CHOOSE d \in dates : \A e \in dates : e <= d) - window_days

\* The calendar days on or after first_day on which the product was sold.
days_sold(product, first_day) ==
    {transaction_details[i].Date : i \in
        {j \in DOMAIN transaction_details :
            /\ transaction_details[j].item = product
            /\ transaction_details[j].Date >= first_day}}

\* C26: for every product with at least one sale in the window,
\* sales_frequency = (distinct calendar days with a sale inside the window)
\* / 90 lies in [0, 1], the window keeping every record dated on or after
\* (latest record date - 90 days).
C26_SalesFrequencyInUnitInterval ==
    engine_loaded =>
        \A i \in DOMAIN sales_patterns :
            /\ sales_patterns[i].days_with_sales
                   = Cardinality(days_sold(sales_patterns[i].product_name, window_start))
            /\ sales_patterns[i].days_with_sales >= 0
            /\ sales_patterns[i].days_with_sales <= window_days

\* What the code keeps: the days counted are the distinct days sold in the
\* window, of which there are at most 91, and every product sold in the
\* window has a pattern.
sales_frequency_bound ==
    (engine_loaded /\ transaction_details # <<>>) =>
        LET first_day == window_start
        IN  /\ \A i \in DOMAIN sales_patterns :
                   /\ sales_patterns[i].days_with_sales
                          = Cardinality(days_sold(sales_patterns[i].product_name, first_day))
                   /\ sales_patterns[i].days_with_sales \in 1..(window_days + 1)
            /\ \A product \in {transaction_details[j].item : j \in DOMAIN transaction_details} :
                   days_sold(product, first_day) # {}
                       => has_pattern(sales_patterns, product)

(***************************************************************************)
(* The product matcher's thresholds.                                       *)
(***************************************************************************)
is_manual(pos_product_name) == dict_has(manual_mappings, pos_product_name)

\* The names find_supplier_for_product returned, none when it returned None.
returned_names == IF find_result.val.returned.some THEN find_result.val.returned.val ELSE <<>>

\* C27: every fuzzy match returned for a name absent from the manual table
\* has a similarity of at least 70%, for the matches built when the matcher
\* is loaded and for those find_supplier_for_product computes on demand; a
\* name of the manual table returns its curated list without fuzzy matching.
C27_FuzzyMatchesReachSeventy ==
    find_result.some =>
        LET asked == find_result.val.pos_product_name
        IN  IF is_manual(asked)
            THEN find_result.val.returned = Some(dict_get(manual_mappings, asked))
            ELSE \A i \in DOMAIN returned_names :
                     token_sort_ratio(asked, returned_names[i]) >= auto_match_threshold

\* What the code keeps: a name of the manual table returns its list, a name
\* matched when the matcher was built returns matches of at least 70%, and
\* any other name returns the at most two best invoice names of at least 60%.
matcher_thresholds ==
    find_result.some =>
        LET asked == find_result.val.pos_product_name
            pos_to_supplier_map == product_matcher.val.pos_to_supplier_map
        IN  IF is_manual(asked)
            THEN find_result.val.returned = Some(dict_get(manual_mappings, asked))
            ELSE IF dict_has(pos_to_supplier_map, asked)
            THEN /\ find_result.val.returned = Some(dict_get(pos_to_supplier_map, asked))
                 /\ Len(returned_names) \in 1..3
                 /\ \A i \in DOMAIN returned_names :
                        token_sort_ratio(asked, returned_names[i]) >= auto_match_threshold
            ELSE /\ Len(returned_names) <= 2
                 /\ \A i \in DOMAIN returned_names :
                        /\ token_sort_ratio(asked, returned_names[i]) >= on_demand_threshold
                        /\ returned_names[i] \in invoice_products_of(invoice_table)

(***************************************************************************)
(* The planner's price comparison against the detector's.                  *)
(***************************************************************************)
\* Both comparisons have run over the snapshot.
both_compared == pc[1] = "returned" /\ det_pc \in {"save", "idle"} /\ n_refresh > 0

\* A demand item of the planner whose normalized name is the name of an
\* invoice item and of a catalog cost record.
matches_both(item) ==
    /\ \E i \in DOMAIN invoice_table :
           name_key(invoice_table[i].item_name) = name_key(item.item_name)
    /\ \E i \in DOMAIN product_inventory_table :
           /\ product_inventory_table[i].cost_parses
           /\ name_key(product_inventory_table[i].product_name) = name_key(item.item_name)

\* The hikes recorded in changes for the item.
hikes_of(changes, item) ==
    {[inventory_price |-> changes[i].inventory_price,
      invoice_price |-> changes[i].invoice_price,
      supplier |-> changes[i].supplier] :
        i \in {j \in DOMAIN changes :
                  name_key(changes[j].item_name) = name_key(item.item_name)}}

prices_of(hikes) ==
    {[inventory_price |-> h.inventory_price, invoice_price |-> h.invoice_price] : h \in hikes}

\* C28: on one unchanged snapshot, for every demand item whose normalized
\* name exactly matches an invoice item and a catalog cost record, the
\* planner records a price change if and only if the detector does, with
\* the same inventory_price, invoice_price and supplier.
C28_PlannerAndDetectorAgree ==
    both_compared =>
        LET all_items == get_all_items_with_demand(demand_forecasts)
        IN  \A i \in DOMAIN all_items :
                matches_both(all_items[i]) =>
                    hikes_of(price_changes[1], all_items[i])
                        = hikes_of(det_price_changes, all_items[i])

\* What the code keeps: for such an item the planner records a hike exactly
\* when the detector does, with the same two prices; the supplier is the
\* same when a single supplier has invoiced the item.
planner_and_detector_prices_agree ==
    both_compared =>
        LET all_items == get_all_items_with_demand(demand_forecasts)
        IN  \A i \in DOMAIN all_items :
                matches_both(all_items[i]) =>
                    LET planner == hikes_of(price_changes[1], all_items[i])
                        detected == hikes_of(det_price_changes, all_items[i])
                        invoicing == {invoice_table[j].supplier_name :
                                         j \in {n \in DOMAIN invoice_table :
                                                   name_key(invoice_table[n].item_name)
                                                       = name_key(all_items[i].item_name)}}
                    IN  /\ prices_of(planner) = prices_of(detected)
                        /\ Cardinality(invoicing) = 1 => planner = detected

(***************************************************************************)
(* The weeks of one plan against each other and against the month.         *)
(***************************************************************************)
\* What a week orders: the suppliers admitted, in order, with their amounts
\* and items.
orders_of_week(r, week_num) ==
    [i \in DOMAIN week_recs(r, week_num) |->
        [supplier_name |-> week_recs(r, week_num)[i].supplier_name,
         total_amount_sgd |-> week_recs(r, week_num)[i].total_amount_sgd,
         items |-> week_recs(r, week_num)[i].items]]

\* The cost of the whole plan: the costs of its supplier orders, every week's.
plan_cost(r) ==
    sum_of([i \in DOMAIN recommendations[r] |->
               order_cost_of(r, recommendations[r][i].supplier_name)])

\* C29: within one planner run every week of the month receives the same
\* admitted supplier orders with the same costs, and the total cost of the
\* monthly plan is at most monthly_budget.
C29_WeeksAlikeWithinMonthlyBudget ==
    \A r \in Runs : returned(r) =>
        /\ \A i \in DOMAIN recommendations[r] :
               recommendations[r][i].week_number \in DOMAIN weeks_of_run(r)
        /\ \A w \in DOMAIN weeks_of_run(r) : orders_of_week(r, w) = orders_of_week(r, 1)
        /\ plan_cost(r) <= monthly_budget

\* C29 witness: a plan of five weeks, each ordering from a supplier, where
\* the plan spends at least half of the monthly budget and the weekly
\* budget left a placeable order out.
C29_Witness ==
    /\ returned(1)
    /\ Len(weeks_of_run(1)) = 5
    /\ orders_of_week(1, 5) # <<>>
    /\ 2 * plan_cost(1) >= monthly_budget
    /\ \E i \in DOMAIN run_orders(1) :
           /\ run_orders(1)[i].cost >= min_order_value
           /\ ~admitted_in(1, 5, run_orders(1)[i].supplier)

(***************************************************************************)
(* The reviewed flag across a refresh.                                     *)
(***************************************************************************)
\* The step that ends a refresh: save_price_changes has committed.
refresh_saved == det_pc = "save" /\ det_pc' = "idle"

\* C30: a price change that was marked reviewed keeps reviewed = true across
\* a later refresh of the detector on unchanged inputs that detects the same
\* hike again (same item_name, supplier, inventory_price, invoice_price).
C30_ReviewedKeptAcrossRefresh ==
    [][refresh_saved =>
          \A row \in det_at_start : row.reviewed =>
              \A other \in price_changes_table' :
                  same_price_change(other, row) => other.reviewed]_vars

\* What the code keeps: every row a refresh leaves in the table is not
\* reviewed, whatever was reviewed before it.
refresh_resets_reviewed ==
    [][refresh_saved => \A row \in price_changes_table' : ~row.reviewed]_vars

====
